---- MODULE Spec2Model ----
(***************************************************************************)
(* Dataset consolidation and split engine of the chicken-detection         *)
(* repository: the ETL task scripts (tasks 2.2.x, 2.3.x), the artifact     *)
(* generator (task 2.4.1) and its stratified splitter.                     *)
(*                                                                         *)
(* Numbers.  A train ratio is the exact fraction num/den.  For den <= 11   *)
(* and lists of at most 8 images, Python's float arithmetic int(n * r) and *)
(* ceil((1 - r) * n) gives the same integers as the fraction, except for   *)
(* r = 6/7 with n = 7, which the bounds below never reach.                 *)
(*                                                                         *)
(* Random numbers.  Python's Mersenne Twister (module random) and numpy's  *)
(* RandomState (inside sklearn) are replaced by one small linear           *)
(* congruential generator: a state is a number below RngMod, seeding sets  *)
(* the state from the seed, and each draw advances it.  The shuffle is     *)
(* Python's own Fisher-Yates loop over that generator.                     *)
(***************************************************************************)
EXTENDS Integers, Sequences, FiniteSets, TLC

VARIABLES
    HAS_SKLEARN,   \* task_241: whether the sklearn import succeeded
    rng,           \* state of the module-level generator of `random`
    dataset,       \* the dataset handed to stratified_split
    result,        \* what the latest stratified_split call returned
    memo,          \* the first call of the process and what it returned
    raw_data,      \* data/raw_data: the image files and the label file of each stem
    data_files,    \* the JSON files under data/ that the task scripts write
    run,           \* the latest run of task 2.4.1: exit status and in-memory dataset
    last_task,     \* the number of the task script that ran last (0: none yet)
    tasks_run,     \* the numbers of the task scripts that have run
    validation,    \* one call of validate_saco_schema: its argument and outcome
    yolo,          \* one YOLO box, its image size and the converted entry,
                   \* or one YOLO label file and the boxes parsed from it
    labelme        \* one LabelMe file: its shapes and the polygons parsed from it

vars == <<HAS_SKLEARN, rng, dataset, result, memo, raw_data, data_files, run, last_task, tasks_run, validation, yolo, labelme>>

----------------------------------------------------------------------------
(* Bounds of the model *)

MaxImages == 4
MaxDen == 5
MaxSeed == 1
RngMod == 8

----------------------------------------------------------------------------
(* Helpers on sequences *)

Range(s) == {s[i] : i \in 1..Len(s)}

RECURSIVE SelectIdx(_, _, _)
\* the elements of s at the positions listed in idx, in the order of idx
SelectIdx(s, idx, k) ==
    IF k > Len(idx) THEN <<>>
    ELSE <<s[idx[k]]>> \o SelectIdx(s, idx, k + 1)

Swap(s, i, j) == [s EXCEPT ![i] = s[j], ![j] = s[i]]

----------------------------------------------------------------------------
(* The generator *)

Seeded(seed) == seed % RngMod

RngNext(x) == (5 * x + 3) % RngMod

\* random._randbelow(n): a number in 0..n-1 drawn from state x
RandBelow(x, n) == x % n

RECURSIVE ShuffleFrom(_, _, _)
\* for i in reversed(range(1, len(x))): j = randbelow(i + 1); swap x[i], x[j]
\* (positions are 1-based here: i runs from Len(x) down to 2)
ShuffleFrom(s, x, i) ==
    IF i < 2 THEN [list |-> s, rng |-> x]
    ELSE ShuffleFrom(Swap(s, i, RandBelow(x, i) + 1), RngNext(x), i - 1)

shuffle(s, x) == ShuffleFrom(s, x, Len(s))

\* numpy's RandomState(seed).permutation(n): a fresh generator per call
permutation(n, seed) == shuffle([i \in 1..n |-> i], Seeded(seed)).list

----------------------------------------------------------------------------
(* sklearn.model_selection.train_test_split as task_241 calls it:          *)
(* test_size = 1 - train_ratio, train_size = None, shuffle = True.         *)

CeilDiv(a, b) == (a + b - 1) \div b

\* mutant: the test share rounded down instead of up
train_test_split_floor(list, ratio, seed) ==
    LET n       == Len(list)
        n_test  == (n * (ratio[2] - ratio[1])) \div ratio[2]
        n_train == n - n_test
        perm    == permutation(n, seed)
    IN  IF n_train = 0
        THEN [ok |-> FALSE, train |-> <<>>, test |-> <<>>]
        ELSE [ok    |-> TRUE,
              train |-> SelectIdx(list, SubSeq(perm, n_test + 1, n_test + n_train), 1),
              test  |-> SelectIdx(list, SubSeq(perm, 1, n_test), 1)]

train_test_split(list, ratio, seed) ==
    LET n       == Len(list)
        n_test  == CeilDiv(n * (ratio[2] - ratio[1]), ratio[2])
        n_train == n - n_test
        perm    == permutation(n, seed)
    IN  IF n_train = 0
        THEN [ok |-> FALSE, train |-> <<>>, test |-> <<>>]
        ELSE [ok    |-> TRUE,
              train |-> SelectIdx(list, SubSeq(perm, n_test + 1, n_test + n_train), 1),
              test  |-> SelectIdx(list, SubSeq(perm, 1, n_test), 1)]

----------------------------------------------------------------------------
(* task_241_generate_json_artifacts.py *)

separate_positive_negative(images, annotations) ==
    LET image_ids_with_annotations == {annotations[i].image_id : i \in 1..Len(annotations)}
        IsPos(img) == img.id \in image_ids_with_annotations
        IsNeg(img) == img.id \notin image_ids_with_annotations
    IN  [positive_images |-> SelectSeq(images, IsPos),
         negative_images |-> SelectSeq(images, IsNeg)]

\* mutant: the annotations are not filtered by image id
get_annotations_unfiltered(annotations, image_ids) == annotations

get_annotations_for_images(annotations, image_ids) ==
    LET Keep(ann) == ann.image_id \in image_ids
    IN  SelectSeq(annotations, Keep)

\* mutant: the val slice starts one element early
SplitClassOverlap(class_images, ratio, seed, x, sk) ==
    IF Len(class_images) = 0
    THEN [ok |-> TRUE, train |-> <<>>, val |-> <<>>, rng |-> x]
    ELSE IF sk /\ Len(class_images) > 1
    THEN LET tts == train_test_split(class_images, ratio, seed)
         IN  [ok |-> tts.ok, train |-> tts.train, val |-> tts.test, rng |-> x]
    ELSE LET sh        == shuffle(class_images, x)
             split_idx == (Len(class_images) * ratio[1]) \div ratio[2]
         IN  [ok    |-> TRUE,
              train |-> SubSeq(sh.list, 1, split_idx),
              val   |-> SubSeq(sh.list, IF split_idx = 0 THEN 1 ELSE split_idx, Len(sh.list)),
              rng   |-> sh.rng]

\* mutant: split_idx rounded up instead of truncated
SplitClassCeil(class_images, ratio, seed, x, sk) ==
    IF Len(class_images) = 0
    THEN [ok |-> TRUE, train |-> <<>>, val |-> <<>>, rng |-> x]
    ELSE IF sk /\ Len(class_images) > 1
    THEN LET tts == train_test_split(class_images, ratio, seed)
         IN  [ok |-> tts.ok, train |-> tts.train, val |-> tts.test, rng |-> x]
    ELSE LET sh        == shuffle(class_images, x)
             split_idx == CeilDiv(Len(class_images) * ratio[1], ratio[2])
         IN  [ok    |-> TRUE,
              train |-> SubSeq(sh.list, 1, split_idx),
              val   |-> SubSeq(sh.list, split_idx + 1, Len(sh.list)),
              rng   |-> sh.rng]

\* One class of images split into (train, val): lines 253-269 and 272-288.
\* x is the state of the module-level generator before the split.
SplitClass(class_images, ratio, seed, x, sk) ==
    IF Len(class_images) = 0
    THEN [ok |-> TRUE, train |-> <<>>, val |-> <<>>, rng |-> x]
    ELSE IF sk /\ Len(class_images) > 1
    THEN LET tts == train_test_split(class_images, ratio, seed)
         IN  [ok |-> tts.ok, train |-> tts.train, val |-> tts.test, rng |-> x]
    ELSE LET sh        == shuffle(class_images, x)
             split_idx == (Len(class_images) * ratio[1]) \div ratio[2]
         IN  [ok    |-> TRUE,
              train |-> SubSeq(sh.list, 1, split_idx),
              val   |-> SubSeq(sh.list, split_idx + 1, Len(sh.list)),
              rng   |-> sh.rng]

Raised(x) ==
    [status |-> "raised", train_images |-> <<>>, val_images |-> <<>>,
     train_annotations |-> <<>>, val_annotations |-> <<>>, rng |-> x]

\* mutant: the generator is not seeded
SeedGeneratorOmitted(seed, x) == x

\* random.seed(random_seed), the first statement of stratified_split
SeedGenerator(seed, x) == Seeded(seed)

stratified_split(images, annotations, ratio, seed, x0, sk) ==
    LET x1  == SeedGenerator(seed, x0)
        sep == separate_positive_negative(images, annotations)
        pos == SplitClass(sep.positive_images, ratio, seed, x1, sk)
        neg == SplitClass(sep.negative_images, ratio, seed, pos.rng, sk)
        train_images == pos.train \o neg.train
        val_images   == pos.val \o neg.val
        train_image_ids == {train_images[i].id : i \in 1..Len(train_images)}
        val_image_ids   == {val_images[i].id : i \in 1..Len(val_images)}
        sh_train == shuffle(train_images, neg.rng)
        sh_val   == shuffle(val_images, sh_train.rng)
    IN  IF Len(sep.positive_images) = 0 /\ Len(sep.negative_images) = 0
        THEN [status |-> "ok", train_images |-> <<>>, val_images |-> <<>>,
              train_annotations |-> <<>>, val_annotations |-> <<>>, rng |-> x1]
        ELSE IF ~pos.ok THEN Raised(x1)
        ELSE IF ~neg.ok THEN Raised(pos.rng)
        ELSE [status |-> "ok",
              train_images |-> sh_train.list,
              val_images   |-> sh_val.list,
              train_annotations |-> get_annotations_for_images(annotations, train_image_ids),
              val_annotations   |-> get_annotations_for_images(annotations, val_image_ids),
              rng |-> sh_val.rng]

----------------------------------------------------------------------------
(* The splitter called on arbitrary datasets, inside one Python process.   *)

Letters == <<"a", "b", "c", "d", "e", "f">>

ImageRecord(i, dir, stem) ==
    [id |-> i, file_name |-> [dir |-> dir, stem |-> stem]]

AnnotationRecord(a, i) == [id |-> a, image_id |-> i]

\* the id of each image record: all distinct, or the last record repeats the
\* id of the first one
IdVectors(n) ==
    {v \in [1..n -> 1..n] : \A k \in 1..n : v[k] = k \/ (k = n /\ v[k] = 1)}

RECURSIVE SetToSeq(_)
\* the elements of a set of numbers in increasing order
SetToSeq(S) ==
    IF S = {} THEN <<>>
    ELSE LET m == CHOOSE x \in S : \A y \in S : x <= y
         IN  <<m>> \o SetToSeq(S \ {m})

\* one annotation on each image id of P, numbered from 1
AnnotationsOn(P) ==
    LET ids == SetToSeq(P)
    IN  [k \in 1..Len(ids) |-> AnnotationRecord(k, ids[k])]

SplitDatasets ==
    {[images      |-> [k \in 1..n |-> ImageRecord(v[k], "chicken", <<Letters[k]>>)],
      annotations |-> AnnotationsOn(P)] :
        <<n, v, P>> \in {t \in UNION {{<<m, w, Q>> : w \in IdVectors(m), Q \in SUBSET (1..m)} :
                                      m \in 0..MaxImages} : TRUE}}

Ratios == {<<num, den>> : num \in 1..MaxDen, den \in 2..MaxDen} \cap
          {r \in (1..MaxDen) \X (2..MaxDen) : r[1] < r[2]}

Seeds == 0..MaxSeed

NoCall == [status |-> "none"]

\* the values of the variables a specification does not use
NoCorpus == [images |-> {}, labels |-> <<>>]
Absent == [exists |-> FALSE, content |-> <<>>]
NoFiles == [metadata |-> Absent, yolo |-> Absent, labelme |-> Absent, negatives |-> Absent,
            report |-> Absent, consolidated |-> Absent, train |-> Absent, val |-> Absent,
            verification |-> Absent, negative_statistics |-> Absent]
NotRun == [exit |-> -1, stage |-> "not_run", after_exclusion |-> FALSE,
           dataset |-> [images |-> <<>>, annotations |-> <<>>]]
NoYolo == [line |-> <<>>, width |-> 0, height |-> 0, converted |-> FALSE, out |-> <<>>]
NoLabelme == [shapes |-> <<>>, parsed |-> FALSE, polygons |-> <<>>]
NoSplit == [kind |-> "none", ratio |-> <<1, 2>>, seed |-> 0, out |-> NoCall]
NoValidation == [called |-> FALSE, data |-> <<>>, out |-> <<>>]

InitSplit ==
    /\ HAS_SKLEARN \in BOOLEAN
    /\ rng \in 0..(RngMod - 1)
    /\ dataset \in SplitDatasets
    /\ result = NoSplit
    /\ memo = result
    /\ raw_data = NoCorpus
    /\ data_files = NoFiles
    /\ run = NotRun
    /\ last_task = 0
    /\ tasks_run = {}
    /\ validation = NoValidation
    /\ yolo = NoYolo
    /\ labelme = NoLabelme

\* the first call of stratified_split in the process
FirstCall(ratio, seed) ==
    /\ memo.out = NoCall
    /\ LET out == stratified_split(dataset.images, dataset.annotations,
                                   ratio, seed, rng, HAS_SKLEARN)
       IN  /\ result' = [kind |-> "first", ratio |-> ratio, seed |-> seed, out |-> out]
           /\ memo' = result'
           /\ rng' = out.rng
    /\ UNCHANGED <<HAS_SKLEARN, dataset, raw_data, data_files, run, last_task, tasks_run, validation, yolo, labelme>>

\* anything else that draws from the module-level generator between two
\* calls, other calls of stratified_split included: it leaves the generator
\* in some other state
OtherRandomUse(x) ==
    /\ memo.out # NoCall
    /\ rng' = x
    /\ UNCHANGED <<HAS_SKLEARN, dataset, result, memo, raw_data, data_files, run, last_task, tasks_run, validation, yolo, labelme>>

\* a later call with the arguments of the first one
RepeatCall ==
    /\ memo.out # NoCall
    /\ LET out == stratified_split(dataset.images, dataset.annotations,
                                   memo.ratio, memo.seed, rng, HAS_SKLEARN)
           \* "disturbed": the generator is not where the first call left it
           kind == IF rng = memo.out.rng THEN "repeat" ELSE "repeat_disturbed"
       IN  /\ result' = [kind |-> kind, ratio |-> memo.ratio, seed |-> memo.seed, out |-> out]
           /\ rng' = out.rng
    /\ UNCHANGED <<HAS_SKLEARN, dataset, memo, raw_data, data_files, run, last_task, tasks_run, validation, yolo, labelme>>

NextSplit ==
    \/ \E ratio \in Ratios, seed \in Seeds : FirstCall(ratio, seed)
    \/ \E x \in 0..(RngMod - 1) : OtherRandomUse(x)
    \/ RepeatCall

SpecSplit == InitSplit /\ [][NextSplit]_vars

----------------------------------------------------------------------------
(* Files and paths.  A path is its root (the directory it is written        *)
(* relative to), the class directory under raw_data/images and the stem of  *)
(* the file name as a sequence of characters; every image is a .jpg.        *)

Ext == <<".jpg">>

PathName(path) == path.stem \o Ext

EndsWith(s, t) ==
    /\ Len(t) <= Len(s)
    /\ SubSeq(s, Len(s) - Len(t) + 1, Len(s)) = t

\* the image files a corpus may hold, in the order sorted() gives them
CandidateFiles ==
    << [dir |-> "chicken", stem |-> <<"a">>],
       [dir |-> "chicken", stem |-> <<"b">>],
       [dir |-> "not_chicken", stem |-> <<"a">>],
       [dir |-> "not_chicken", stem |-> <<"c">>] >>

\* the label stems, in the order sorted() gives them
StemOrder == << <<"a">>, <<"b">>, <<"c">> >>

\* chicken/ba.jpg, a file whose name ends with the name a.jpg
SuffixNamedFile == [dir |-> "chicken", stem |-> <<"b", "a">>]

\* every image file of the model, in the order sorted() gives them
SortedImageFiles ==
    << CandidateFiles[1], CandidateFiles[2], SuffixNamedFile,
       CandidateFiles[3], CandidateFiles[4] >>

\* int(md5(name).hexdigest()[:8], 16) % 1000000000 of a.jpg, b.jpg, c.jpg
\* and ba.jpg
Md5Id(stem) ==
    CASE stem = <<"a">> -> 960911721
      [] stem = <<"b">> -> 21262555
      [] stem = <<"c">> -> 32167391
      [] stem = <<"b", "a">> -> 514304320

----------------------------------------------------------------------------
(* task_221_image_metadata_extraction.py *)

\* sorted image files of one class directory
get_image_files(corpus, dir) ==
    LET InDir(f) == f.dir = dir /\ f \in corpus.images
    IN  SelectSeq(SortedImageFiles, InDir)

generate_image_id(image_path) == Md5Id(image_path.stem)

extract_image_metadata(image_path) ==
    [id        |-> generate_image_id(image_path),
     file_name |-> [root |-> "base_path", dir |-> image_path.dir, stem |-> image_path.stem],
     is_instance_exhaustive |-> "absent"]

process_images(corpus) ==
    LET files == get_image_files(corpus, "chicken") \o get_image_files(corpus, "not_chicken")
    IN  [k \in 1..Len(files) |-> extract_image_metadata(files[k])]

----------------------------------------------------------------------------
(* task_222_yolo_bbox_to_polygon_conversion.py                             *)
(* A normalized value is k / Grid.  Pixel coordinates are kept in units of *)
(* 1 / (2 * Grid) pixel, so that half a width is a whole number.           *)

Grid == 10

Px(p) == p * 2 * Grid

Max(a, b) == IF a >= b THEN a ELSE b
Min(a, b) == IF a <= b THEN a ELSE b

yolo_to_absolute_coords(yolo_coords, img_width, img_height) ==
    LET x_center == 2 * yolo_coords[2] * img_width
        y_center == 2 * yolo_coords[3] * img_height
        half_w   == yolo_coords[4] * img_width
        half_h   == yolo_coords[5] * img_height
        x_min == Max(0, Min(x_center - half_w, Px(img_width)))
        y_min == Max(0, Min(y_center - half_h, Px(img_height)))
        x_max == Max(0, Min(x_center + half_w, Px(img_width)))
        y_max == Max(0, Min(y_center + half_h, Px(img_height)))
    IN  <<x_min, y_min, x_max, y_max>>

bbox_to_polygon(x_min, y_min, x_max, y_max) ==
    <<x_min, y_min, x_max, y_min, x_max, y_max, x_min, y_max>>

\* the entry convert_yolo_labels appends for one box (lines 229-236)
ConvertYoloBox(yolo_box, img_width, img_height) ==
    LET bbox_abs == yolo_to_absolute_coords(yolo_box, img_width, img_height)
    IN  [class_id |-> yolo_box[1],
         polygon  |-> bbox_to_polygon(bbox_abs[1], bbox_abs[2], bbox_abs[3], bbox_abs[4]),
         bbox     |-> bbox_abs]

\* a token of a line, as line.split() gives it: a number float() accepts, in
\* units of 1 / Grid, or a text for which float() raises ValueError
Num(n) == [numeric |-> TRUE, value |-> n]
NotANumber == [numeric |-> FALSE, value |-> 0]

\* a line of numbers as its tokens
Tokens(numbers) == [k \in 1..Len(numbers) |-> Num(numbers[k])]

\* variant: the first line that fails a check ends the parse
parse_yolo_label_file_stopping(lines) ==
    LET Kept(parts) == /\ Len(parts) = 5
                       /\ \A k \in 1..5 : parts[k].numeric
                       /\ \A k \in 2..5 : 0 <= parts[k].value /\ parts[k].value <= Grid
        good == {n \in 0..Len(lines) : \A k \in 1..n : Kept(lines[k]) \/ Len(lines[k]) = 0}
        upto == CHOOSE n \in good : \A m \in good : m <= n
        kept == SelectSeq(SubSeq(lines, 1, upto), Kept)
    IN  [k \in 1..Len(kept) |-> [j \in 1..5 |-> kept[k][j].value]]

\* the lines of a label file, each the sequence of its tokens (a blank line
\* has none): a line is kept when it has 5 tokens, float() accepts all of
\* them and the four geometric values lie in [0, 1]; a missing or empty file
\* has no lines
parse_yolo_label_file(lines) ==
    LET Kept(parts) == /\ Len(parts) = 5
                       /\ \A k \in 1..5 : parts[k].numeric
                       /\ \A k \in 2..5 : 0 <= parts[k].value /\ parts[k].value <= Grid
        kept == SelectSeq(lines, Kept)
    IN  [k \in 1..Len(kept) |-> [j \in 1..5 |-> kept[k][j].value]]

\* chicken first, then not_chicken (lines 46-60)
find_corresponding_image(corpus, stem) ==
    IF [dir |-> "chicken", stem |-> stem] \in corpus.images
    THEN [found |-> TRUE, dir |-> "chicken"]
    ELSE IF [dir |-> "not_chicken", stem |-> stem] \in corpus.images
    THEN [found |-> TRUE, dir |-> "not_chicken"]
    ELSE [found |-> FALSE, dir |-> ""]

\* width and height of every image of the corpus, in pixels
ImageWidth == 100
ImageHeight == 100

YoloLines(label) ==
    IF label = "yolo" THEN << Tokens(<<0, 5, 5, 4, 4>>) >> ELSE <<>>

RECURSIVE ConvertYoloFrom(_, _)
ConvertYoloFrom(corpus, k) ==
    IF k > Len(StemOrder) THEN <<>>
    ELSE LET stem  == StemOrder[k]
             boxes == parse_yolo_label_file(YoloLines(corpus.labels[stem]))
             img   == find_corresponding_image(corpus, stem)
             rest  == ConvertYoloFrom(corpus, k + 1)
         IN  IF corpus.labels[stem] # "yolo" \/ Len(boxes) = 0 \/ ~img.found
             THEN rest
             ELSE << [image_file |-> [root |-> "project_root", dir |-> img.dir, stem |-> stem],
                      polygons   |-> [b \in 1..Len(boxes) |->
                                        ConvertYoloBox(boxes[b], ImageWidth, ImageHeight)]] >>
                  \o rest

convert_yolo_labels(corpus) == ConvertYoloFrom(corpus, 1)

----------------------------------------------------------------------------
(* task_223_labelme_parsing.py *)

\* dict.get(key, default)
Get(rec, key, default) == IF key \in DOMAIN rec THEN rec[key] ELSE default

Chicken == <<"c", "h", "i", "c", "k", "e", "n">>
UnknownBird == <<"U", "n", "k", "n", "o", "w", "n", " ", "b", "i", "r", "d">>

\* a triangle, as LabelMe stores it: [[x, y], [x, y], [x, y]]
TrianglePoints == << <<Px(10), Px(10)>>, <<Px(50), Px(10)>>, <<Px(30), Px(40)>> >>

\* the shapes of the LabelMe file of each label kind
LabelmeShapes(label) ==
    CASE label = "labelme" ->
            << [label |-> Chicken, shape_type |-> "polygon", points |-> TrianglePoints] >>
      [] label = "labelme_ambiguous" ->
            << [label |-> UnknownBird, shape_type |-> "polygon", points |-> TrianglePoints] >>
      [] OTHER -> <<>>

IsLabelme(label) == label \in {"labelme", "labelme_ambiguous"}

RECURSIVE points_to_flat_list(_)
points_to_flat_list(points) ==
    IF Len(points) = 0 THEN <<>>
    ELSE (IF Len(Head(points)) >= 2 THEN <<Head(points)[1], Head(points)[2]>> ELSE <<>>)
         \o points_to_flat_list(Tail(points))

\* variant: three points are not enough
ParseShapeStrict(shape, shape_idx) ==
    LET flat == IF "points" \in DOMAIN shape THEN points_to_flat_list(shape["points"]) ELSE <<>>
    IN  IF /\ Get(shape, "shape_type", "None") = "polygon"
           /\ "points" \in DOMAIN shape
           /\ Len(shape["points"]) > 0
           /\ Len(flat) > 6
        THEN << [label       |-> Get(shape, "label", Chicken),
                 points_flat |-> flat,
                 num_points  |-> Len(shape["points"]),
                 shape_index |-> shape_idx] >>
        ELSE <<>>

\* lines 130-146 for one shape, a dict: the polygon it adds, if any
ParseShape(shape, shape_idx) ==
    LET flat == IF "points" \in DOMAIN shape THEN points_to_flat_list(shape["points"]) ELSE <<>>
    IN  IF /\ Get(shape, "shape_type", "None") = "polygon"
           /\ "points" \in DOMAIN shape
           /\ Len(shape["points"]) > 0
           /\ Len(flat) >= 6
        THEN << [label       |-> Get(shape, "label", Chicken),
                 points_flat |-> flat,
                 num_points  |-> Len(shape["points"]),
                 shape_index |-> shape_idx] >>
        ELSE <<>>

RECURSIVE ParseShapesFrom(_, _)
ParseShapesFrom(shapes, k) ==
    IF k > Len(shapes) THEN <<>>
    ELSE ParseShape(shapes[k], k - 1) \o ParseShapesFrom(shapes, k + 1)

parse_labelme_file(shapes) == ParseShapesFrom(shapes, 1)

RECURSIVE ConvertLabelmeFrom(_, _)
ConvertLabelmeFrom(corpus, k) ==
    IF k > Len(StemOrder) THEN <<>>
    ELSE LET stem     == StemOrder[k]
             polygons == parse_labelme_file(LabelmeShapes(corpus.labels[stem]))
             img      == find_corresponding_image(corpus, stem)
             rest     == ConvertLabelmeFrom(corpus, k + 1)
         IN  IF ~IsLabelme(corpus.labels[stem]) \/ Len(polygons) = 0 \/ ~img.found
             THEN rest
             ELSE << [image_file |-> [root |-> "project_root", dir |-> img.dir, stem |-> stem],
                      polygons   |-> polygons] >> \o rest

convert_labelme_files(corpus) == ConvertLabelmeFrom(corpus, 1)

----------------------------------------------------------------------------
(* task_224_exhaustiveness_flagging.py *)

\* the values the field is_instance_exhaustive may hold in a metadata file:
\* no key, a boolean, the number 1 or 0, the string 'true' or '1'
FlagValues == {"absent", "True", "False", "int 1", "int 0", "str true", "str 1"}

\* line 69: image_entry['is_instance_exhaustive'] in [True, 1, 'true', '1']
ALREADY_FLAGGED == {"True", "int 1", "str true", "str 1"}

\* variant: every entry is set to True
add_exhaustiveness_flag_always(images) ==
    [k \in 1..Len(images) |-> [images[k] EXCEPT !.is_instance_exhaustive = "True"]]

add_exhaustiveness_flag(images) ==
    [k \in 1..Len(images) |->
        IF images[k].is_instance_exhaustive \in ALREADY_FLAGGED
        THEN images[k]
        ELSE [images[k] EXCEPT !.is_instance_exhaustive = "True"]]

----------------------------------------------------------------------------
(* task_231_negative_image_processing.py *)

\* the keys of annotations_by_image with their polygon counts: one entry per
\* conversion, keyed by the conversion's image_file
load_annotation_data(yolo_file, labelme_file) ==
    (IF yolo_file.exists THEN yolo_file.content ELSE <<>>) \o
    (IF labelme_file.exists THEN labelme_file.content ELSE <<>>)

\* 'not_chicken' in file_name.lower() or '/not_chicken/' in file_name
InNotChickenFolder(file_name) == file_name.dir = "not_chicken"

\* lines 123-158 for one image: whether it is negative and for which reason
ClassifyImage(img, annotations_by_image) ==
    LET in_folder == InNotChickenFolder(img.file_name)
        total_polygons(key) ==
            LET idx == {k \in 1..Len(annotations_by_image) :
                            annotations_by_image[k].image_file = key}
            IN  IF idx = {} THEN 0
                ELSE LET Sum[S \in SUBSET idx] ==
                             IF S = {} THEN 0
                             ELSE LET j == CHOOSE x \in S : TRUE
                                  IN  Len(annotations_by_image[j].polygons) + Sum[S \ {j}]
                     IN  Sum[idx]
        has_annotations == total_polygons(img.file_name) > 0
    IN  [is_negative      |-> in_folder \/ ~has_annotations,
         not_chicken_folder |-> in_folder,
         zero_annotations |-> ~has_annotations /\ ~in_folder]

identify_negative_images(images, annotations_by_image) ==
    {images[k].id : k \in {j \in 1..Len(images) :
                              ClassifyImage(images[j], annotations_by_image).is_negative}}

\* the statistics of identify_negative_images: each counter is incremented
\* once per image record (lines 137, 154, 158)
CountWhere(images, reason) ==
    Cardinality({k \in 1..Len(images) : reason[k]})

negative_statistics(images, annotations_by_image) ==
    LET class == [k \in 1..Len(images) |-> ClassifyImage(images[k], annotations_by_image)]
    IN  [total_images       |-> Len(images),
         not_chicken_folder |-> CountWhere(images, [k \in 1..Len(images) |-> class[k].not_chicken_folder]),
         zero_annotations   |-> CountWhere(images, [k \in 1..Len(images) |-> class[k].zero_annotations]),
         total_negatives    |-> CountWhere(images, [k \in 1..Len(images) |-> class[k].is_negative])]

\* image_id_to_entry = {img.get('id'): img for img in images}: the last
\* record of an id wins
LastEntryOf(images, id) ==
    images[CHOOSE k \in 1..Len(images) :
              /\ images[k].id = id
              /\ \A j \in (k + 1)..Len(images) : images[j].id # id]

\* the negative ids are iterated in increasing order
create_negative_images_list(images, negative_image_ids) ==
    LET ids == SetToSeq(negative_image_ids)
    IN  [k \in 1..Len(ids) |->
            LET e == LastEntryOf(images, ids[k])
            IN  IF e.is_instance_exhaustive = "absent"
                THEN [e EXCEPT !.is_instance_exhaustive = "True"]
                ELSE e]

----------------------------------------------------------------------------
(* task_232_ambiguous_class_exclusion.py *)

DEFAULT_AMBIGUOUS_PATTERNS ==
    << <<"u","n","k","n","o","w","n">>,
       <<"a","m","b","i","g","u","o","u","s">>,
       <<"u","n","c","l","e","a","r">>,
       <<"u","n","k","n","o","w","n"," ","b","i","r","d">>,
       <<"u","n","i","d","e","n","t","i","f","i","e","d">>,
       <<"u","n","c","e","r","t","a","i","n">>,
       <<"m","a","y","b","e">>,
       <<"p","o","s","s","i","b","l","y">>,
       <<"q","u","e","s","t","i","o","n","a","b","l","e">>,
       <<"u","n","s","u","r","e">> >>

\* str.lower() on the characters the labels use
LowerChar(c) ==
    CASE c = "U" -> "u"
      [] c = "C" -> "c"
      [] c = "H" -> "h"
      [] c = "R" -> "r"
      [] OTHER -> c

Lower(str) == [k \in 1..Len(str) |-> LowerChar(str[k])]

\* pattern in text
Contains(text, pattern) ==
    \E k \in 0..(Len(text) - Len(pattern)) :
        SubSeq(text, k + 1, k + Len(pattern)) = pattern

is_ambiguous_class(class_name, ambiguous_patterns) ==
    \E p \in 1..Len(ambiguous_patterns) :
        Contains(Lower(class_name), ambiguous_patterns[p])

scan_labelme_file(shapes, ambiguous_patterns) ==
    {shapes[k].label : k \in {j \in 1..Len(shapes) :
        /\ Len(shapes[j].label) > 0
        /\ is_ambiguous_class(shapes[j].label, ambiguous_patterns)}}

\* the images of raw_data/images/chicken whose label file names an ambiguous
\* class; without classes.txt a YOLO file never does (lines 117-125)
scan_images_for_ambiguous_classes(corpus) ==
    LET image_files == get_image_files(corpus, "chicken")
        Excluded(f) ==
            /\ IsLabelme(corpus.labels[f.stem])
            /\ scan_labelme_file(LabelmeShapes(corpus.labels[f.stem]),
                                 DEFAULT_AMBIGUOUS_PATTERNS) # {}
        ex == SelectSeq(image_files, Excluded)
    IN  [k \in 1..Len(ex) |->
            [image |-> [root |-> "project_root", dir |-> ex[k].dir, stem |-> ex[k].stem]]]

----------------------------------------------------------------------------
(* task_213_negative_sample_verification.py *)

\* the .json file is looked for first, then the .txt file
get_label_file_for_image(corpus, image_path) == corpus.labels[image_path.stem]

\* variant: every label file is taken to be empty
is_label_file_empty_always(label) == TRUE

\* a LabelMe file without shapes, or a YOLO file without a non-blank line
is_label_file_empty(label) ==
    IF IsLabelme(label) THEN Len(LabelmeShapes(label)) = 0
    ELSE Len(YoloLines(label)) = 0

ProjectPath(image_path) ==
    [root |-> "project_root", dir |-> image_path.dir, stem |-> image_path.stem]

\* lines 115-143: the entry for one image of the not_chicken directory
VerifyNotChicken(corpus, image_path) ==
    LET label_file == get_label_file_for_image(corpus, image_path)
    IN  IF label_file = "none"
        THEN [list |-> "valid", image |-> ProjectPath(image_path),
              reason |-> "No corresponding label file"]
        ELSE IF is_label_file_empty(label_file)
        THEN [list |-> "valid", image |-> ProjectPath(image_path),
              reason |-> "Empty label file"]
        ELSE [list |-> "invalid", image |-> ProjectPath(image_path),
              reason |-> "Has non-empty label file"]

verify_negative_samples(corpus) ==
    LET not_chicken_images == get_image_files(corpus, "not_chicken")
        chicken_images == get_image_files(corpus, "chicken")
        entries == [k \in 1..Len(not_chicken_images) |->
                       VerifyNotChicken(corpus, not_chicken_images[k])]
        IsValid(e) == e.list = "valid"
        IsInvalid(e) == e.list = "invalid"
        Unlabelled(f) ==
            \/ get_label_file_for_image(corpus, f) = "none"
            \/ is_label_file_empty(get_label_file_for_image(corpus, f))
        without == SelectSeq(chicken_images, Unlabelled)
    IN  [valid_negative_samples   |-> SelectSeq(entries, IsValid),
         invalid_negative_samples |-> SelectSeq(entries, IsInvalid),
         warnings |-> [k \in 1..Len(without) |-> [image |-> ProjectPath(without[k])]]]

----------------------------------------------------------------------------
(* task_241_generate_json_artifacts.py: consolidation and main *)

Written(content) == [exists |-> TRUE, content |-> content]

RECURSIVE AddOverwriting(_, _)
\* variant: images_by_id[img_id] = img without the membership test
AddOverwriting(images, more) ==
    IF Len(more) = 0 THEN images
    ELSE IF Head(more).id \in {images[k].id : k \in 1..Len(images)}
    THEN AddOverwriting([k \in 1..Len(images) |->
                            IF images[k].id = Head(more).id THEN Head(more) ELSE images[k]],
                        Tail(more))
    ELSE AddOverwriting(Append(images, Head(more)), Tail(more))

RECURSIVE AddNewIds(_, _)
\* lines 83-86 and 99-106: a record is added unless its id is already a key
AddNewIds(images, more) ==
    IF Len(more) = 0 THEN images
    ELSE IF Head(more).id \in {images[k].id : k \in 1..Len(images)}
    THEN AddNewIds(images, Tail(more))
    ELSE AddNewIds(Append(images, Head(more)), Tail(more))

\* line 124 / 157: the image a conversion's image_file is matched to
MatchesImageFile(img, image_file) ==
    \/ img.file_name = image_file
    \/ EndsWith(PathName(img.file_name), PathName(image_file))

RECURSIVE HitsOfPolygonsOffByOne(_, _, _)
\* variant: the annotation is filed under the id after the matched image's
HitsOfPolygonsOffByOne(img_id, polygons, k) ==
    IF k > Len(polygons) THEN <<>>
    ELSE <<[image_id |-> img_id + 1, poly_data |-> polygons[k]]>>
         \o HitsOfPolygonsOffByOne(img_id, polygons, k + 1)

RECURSIVE HitsOfPolygons(_, _, _)
HitsOfPolygons(img_id, polygons, k) ==
    IF k > Len(polygons) THEN <<>>
    ELSE <<[image_id |-> img_id, poly_data |-> polygons[k]]>>
         \o HitsOfPolygons(img_id, polygons, k + 1)

RECURSIVE HitsOfImages(_, _, _)
HitsOfImages(conv, images, k) ==
    IF k > Len(images) THEN <<>>
    ELSE (IF MatchesImageFile(images[k], conv.image_file) /\ images[k].id # 0
          THEN HitsOfPolygons(images[k].id, conv.polygons, 1)
          ELSE <<>>)
         \o HitsOfImages(conv, images, k + 1)

RECURSIVE HitsOfConversions(_, _, _)
\* the (image id, polygon) pairs in the order the nested loops visit them
HitsOfConversions(conversions, images, k) ==
    IF k > Len(conversions) THEN <<>>
    ELSE HitsOfImages(conversions[k], images, 1)
         \o HitsOfConversions(conversions, images, k + 1)

\* lines 131-139
YoloAnnotation(hit, counter) ==
    [id |-> counter, image_id |-> hit.image_id, category_id |-> 1,
     segmentation |-> << Get(hit.poly_data, "polygon", <<>>) >>,
     bbox |-> Get(hit.poly_data, "bbox", <<>>), area |-> 0, iscrowd |-> 0]

\* variant: the counter starts again at 1 for the LabelMe conversions
LabelmeAnnotationRestarted(hit, counter) ==
    [id |-> 1, image_id |-> hit.image_id, category_id |-> 1,
     segmentation |-> << Get(hit.poly_data, "points_flat", <<>>) >>,
     bbox |-> Get(hit.poly_data, "bbox", <<>>), area |-> 0, iscrowd |-> 0]

\* lines 163-171
LabelmeAnnotation(hit, counter) ==
    [id |-> counter, image_id |-> hit.image_id, category_id |-> 1,
     segmentation |-> << Get(hit.poly_data, "points_flat", <<>>) >>,
     bbox |-> Get(hit.poly_data, "bbox", <<>>), area |-> 0, iscrowd |-> 0]

RECURSIVE KeysInOrder(_, _)
\* the keys of image_id_to_annotations in insertion order
KeysInOrder(created, seen) ==
    IF Len(created) = 0 THEN <<>>
    ELSE IF Head(created).image_id \in seen
    THEN KeysInOrder(Tail(created), seen)
    ELSE <<Head(created).image_id>>
         \o KeysInOrder(Tail(created), seen \cup {Head(created).image_id})

RECURSIVE FlattenByKey(_, _, _)
\* lines 180-181
FlattenByKey(created, keys, k) ==
    IF k > Len(keys) THEN <<>>
    ELSE LET OfKey(ann) == ann.image_id = keys[k]
         IN  SelectSeq(created, OfKey) \o FlattenByKey(created, keys, k + 1)

consolidate_from_etl_outputs(f) ==
    LET from_metadata == IF f.metadata.exists
                         THEN AddNewIds(<<>>, f.metadata.content) ELSE <<>>
        images == IF f.negatives.exists
                  THEN AddNewIds(from_metadata, f.negatives.content) ELSE from_metadata
        yolo_hits == IF f.yolo.exists
                     THEN HitsOfConversions(f.yolo.content, images, 1) ELSE <<>>
        labelme_hits == IF f.labelme.exists
                        THEN HitsOfConversions(f.labelme.content, images, 1) ELSE <<>>
        created == [k \in 1..Len(yolo_hits) |-> YoloAnnotation(yolo_hits[k], k)]
                   \o [k \in 1..Len(labelme_hits) |->
                          LabelmeAnnotation(labelme_hits[k], Len(yolo_hits) + k)]
    IN  [images      |-> images,
         annotations |-> FlattenByKey(created, KeysInOrder(created, {}), 1)]

\* getattr(config, 'TRAIN_SPLIT_RATIO', 0.8) and getattr(config, 'RANDOM_SEED', 42)
TRAIN_SPLIT_RATIO == <<4, 5>>
RANDOM_SEED == 42

\* main: what the run leaves behind.  x is the state of the generator when
\* the process starts (stratified_split seeds it anew); save_train and save_val tell whether each
\* save_json_file call succeeds.
Ended(code, stage, fs, ds) ==
    [exit |-> code, stage |-> stage, files |-> fs, dataset |-> ds]

\* lines 495-508: train is saved first, then val; a failed save ends the run
SaveSplits(f, ds, train_data, val_data, save_train, save_val) ==
    IF ~save_train THEN Ended(1, "save_train_failed", f, ds)
    ELSE IF ~save_val
    THEN Ended(1, "save_val_failed", [f EXCEPT !.train = Written(train_data)], ds)
    ELSE Ended(0, "completed",
               [f EXCEPT !.train = Written(train_data), !.val = Written(val_data)], ds)

\* lines 471-508
SplitAndSave(f, ds, sp, save_train, save_val) ==
    IF sp.status = "raised" THEN Ended(1, "split_raised", f, ds)
    ELSE IF Len(sp.train_images) = 0 /\ Len(sp.val_images) = 0
    THEN Ended(1, "split_empty", f, ds)
    ELSE SaveSplits(f, ds,
                    [images |-> sp.train_images, annotations |-> sp.train_annotations],
                    [images |-> sp.val_images, annotations |-> sp.val_annotations],
                    save_train, save_val)

\* lines 420-468: an existing consolidated file is used as it is
LoadOrConsolidate(f) ==
    IF f.consolidated.exists THEN f.consolidated.content
    ELSE consolidate_from_etl_outputs(f)

\* variant: main without the checks for an empty dataset and an empty split
MainWithoutEmptyChecks(f, ds, sk, x, save_train, save_val) ==
    LET sp == stratified_split(ds.images, ds.annotations,
                               TRAIN_SPLIT_RATIO, RANDOM_SEED, x, sk)
    IN  IF sp.status = "raised" THEN Ended(1, "split_raised", f, ds)
        ELSE SaveSplits(f, ds,
                        [images |-> sp.train_images, annotations |-> sp.train_annotations],
                        [images |-> sp.val_images, annotations |-> sp.val_annotations],
                        save_train, save_val)

MainWith(f, ds, sk, x, save_train, save_val) ==
    IF Len(ds.images) = 0 THEN Ended(1, "no_images", f, ds)
    ELSE SplitAndSave(f, ds,
                      stratified_split(ds.images, ds.annotations,
                                       TRAIN_SPLIT_RATIO, RANDOM_SEED, x, sk),
                      save_train, save_val)

main_241(f, sk, x, save_train, save_val) ==
    MainWith(f, LoadOrConsolidate(f), sk, x, save_train, save_val)

----------------------------------------------------------------------------
(* The task scripts run over one corpus of raw files in the order of       *)
(* their task numbers; any of them may be left out, and task 2.4.1 may be  *)
(* run again.                                                              *)

MaxFiles == 2

LabelKinds == {"none", "yolo", "labelme", "labelme_ambiguous"}

StemsOf(images) == {f.stem : f \in images}

CorporaOver(kinds) ==
    {[images |-> I, labels |-> L] :
        <<I, L>> \in {t \in (SUBSET Range(CandidateFiles)) \X [Range(StemOrder) -> kinds] :
                        /\ Cardinality(t[1]) <= MaxFiles
                        /\ \A st \in Range(StemOrder) :
                               st \notin StemsOf(t[1]) => t[2][st] = "none"}}

Corpora == CorporaOver(LabelKinds)

\* a consolidated dataset placed under data/ by hand: none, or one without images
ConsolidatedFiles == {Absent, Written([images |-> <<>>, annotations |-> <<>>])}

Init ==
    /\ HAS_SKLEARN \in BOOLEAN
    /\ rng = 0
    /\ dataset = [images |-> <<>>, annotations |-> <<>>]
    /\ result = NoSplit
    /\ memo = NoSplit
    /\ raw_data \in Corpora
    /\ \E c \in ConsolidatedFiles : data_files = [NoFiles EXCEPT !.consolidated = c]
    /\ run = NotRun
    /\ last_task = 0
    /\ tasks_run = {}
    /\ validation = NoValidation
    /\ yolo = NoYolo
    /\ labelme = NoLabelme

Frame == UNCHANGED <<HAS_SKLEARN, rng, dataset, result, memo, raw_data, validation, yolo, labelme>>

\* task 2.2.1
ExtractMetadata ==
    /\ last_task < 1
    /\ last_task' = 1
    /\ tasks_run' = tasks_run \cup {1}
    /\ data_files' = [data_files EXCEPT !.metadata = Written(process_images(raw_data))]
    /\ UNCHANGED run
    /\ Frame

\* task 2.2.2
ConvertYoloLabels ==
    /\ last_task < 2
    /\ last_task' = 2
    /\ tasks_run' = tasks_run \cup {2}
    /\ data_files' = [data_files EXCEPT !.yolo = Written(convert_yolo_labels(raw_data))]
    /\ UNCHANGED run
    /\ Frame

\* task 2.2.3
ParseLabelme ==
    /\ last_task < 3
    /\ last_task' = 3
    /\ tasks_run' = tasks_run \cup {3}
    /\ data_files' = [data_files EXCEPT !.labelme = Written(convert_labelme_files(raw_data))]
    /\ UNCHANGED run
    /\ Frame

\* task 2.2.4: a missing metadata file is replaced by an empty one
FlagExhaustiveness ==
    /\ last_task < 4
    /\ last_task' = 4
    /\ tasks_run' = tasks_run \cup {4}
    /\ data_files' = [data_files EXCEPT !.metadata =
                    IF data_files.metadata.exists
                    THEN Written(add_exhaustiveness_flag(data_files.metadata.content))
                    ELSE Written(<<>>)]
    /\ UNCHANGED run
    /\ Frame

\* task 2.3.1: without a metadata file the task ends with status 1
ProcessNegativeImages ==
    /\ last_task < 5
    /\ last_task' = 5
    /\ tasks_run' = tasks_run \cup {5}
    /\ data_files.metadata.exists
    /\ LET by_image == load_annotation_data(data_files.yolo, data_files.labelme)
           ids      == identify_negative_images(data_files.metadata.content, by_image)
       IN  data_files' = [data_files EXCEPT
                        !.negatives =
                            Written(create_negative_images_list(data_files.metadata.content, ids)),
                        !.negative_statistics =
                            Written(negative_statistics(data_files.metadata.content, by_image))]
    /\ UNCHANGED run
    /\ Frame

\* task 2.3.2
ExcludeAmbiguousClasses ==
    /\ last_task < 6
    /\ last_task' = 6
    /\ tasks_run' = tasks_run \cup {6}
    /\ data_files' = [data_files EXCEPT !.report = Written(scan_images_for_ambiguous_classes(raw_data))]
    /\ UNCHANGED run
    /\ Frame

\* task 2.4.1
GenerateArtifacts ==
    /\ last_task' = 7
    /\ tasks_run' = tasks_run \cup {7}
    /\ \E save_train \in BOOLEAN, save_val \in BOOLEAN :
          LET m == main_241(data_files, HAS_SKLEARN, rng, save_train, save_val)
          IN  /\ data_files' = m.files
              /\ run' = [exit |-> m.exit, stage |-> m.stage,
                         after_exclusion |-> data_files.report.exists,
                         dataset |-> m.dataset]
    /\ Frame

Next ==
    \/ ExtractMetadata
    \/ ConvertYoloLabels
    \/ ParseLabelme
    \/ FlagExhaustiveness
    \/ ProcessNegativeImages
    \/ ExcludeAmbiguousClasses
    \/ GenerateArtifacts

Spec == Init /\ [][Next]_vars

----------------------------------------------------------------------------
(* The same tasks over a corpus that holds chicken/ba.jpg, without a label  *)
(* file of its own, next to at most MaxFiles - 1 other images.              *)

WithSuffixNamedFile(corpus) ==
    [images |-> corpus.images \cup {SuffixNamedFile},
     labels |-> [st \in DOMAIN corpus.labels \cup {SuffixNamedFile.stem} |->
                    IF st \in DOMAIN corpus.labels THEN corpus.labels[st] ELSE "none"]]

MatchCorpora ==
    {WithSuffixNamedFile(c) : c \in {c \in Corpora : Cardinality(c.images) < MaxFiles}}

InitMatch ==
    /\ HAS_SKLEARN \in BOOLEAN
    /\ rng = 0
    /\ dataset = [images |-> <<>>, annotations |-> <<>>]
    /\ result = NoSplit
    /\ memo = NoSplit
    /\ raw_data \in MatchCorpora
    /\ \E c \in ConsolidatedFiles : data_files = [NoFiles EXCEPT !.consolidated = c]
    /\ run = NotRun
    /\ last_task = 0
    /\ tasks_run = {}
    /\ validation = NoValidation
    /\ yolo = NoYolo
    /\ labelme = NoLabelme

SpecMatch == InitMatch /\ [][Next]_vars

----------------------------------------------------------------------------
(* Tasks 2.2.4, 2.3.1 and 2.4.1 run over an image_metadata.json that an    *)
(* earlier run or an edit has left with values in is_instance_exhaustive   *)

\* the records task 2.2.1 wrote for the corpus, with any value in the flag
FlaggedMetadata(corpus) ==
    LET records == process_images(corpus)
    IN  {[k \in 1..Len(records) |->
             [records[k] EXCEPT !.is_instance_exhaustive = flags[k]]] :
         flags \in [1..Len(records) -> FlagValues]}

UnlabelledCorpora == {c \in Corpora : \A st \in Range(StemOrder) : c.labels[st] = "none"}

InitFlag ==
    /\ HAS_SKLEARN \in BOOLEAN
    /\ rng = 0
    /\ dataset = [images |-> <<>>, annotations |-> <<>>]
    /\ result = NoSplit
    /\ memo = NoSplit
    /\ raw_data \in UnlabelledCorpora
    /\ \E content \in FlaggedMetadata(raw_data) :
          data_files = [NoFiles EXCEPT !.metadata = Written(content)]
    /\ run = NotRun
    /\ last_task = 1
    /\ tasks_run = {1}
    /\ validation = NoValidation
    /\ yolo = NoYolo
    /\ labelme = NoLabelme

NextFlag ==
    \/ FlagExhaustiveness
    \/ ProcessNegativeImages
    \/ GenerateArtifacts

SpecFlag == InitFlag /\ [][NextFlag]_vars

----------------------------------------------------------------------------
(* Task 2.1.3 and the tasks up to negative-image processing run over a     *)
(* corpus whose label files may also be empty                              *)

LabelKindsOrEmpty == LabelKinds \cup {"yolo_empty"}

InitVerify ==
    /\ HAS_SKLEARN = FALSE
    /\ rng = 0
    /\ dataset = [images |-> <<>>, annotations |-> <<>>]
    /\ result = NoSplit
    /\ memo = NoSplit
    /\ raw_data \in CorporaOver(LabelKindsOrEmpty)
    /\ data_files = NoFiles
    /\ run = NotRun
    /\ last_task = 0
    /\ tasks_run = {}
    /\ validation = NoValidation
    /\ yolo = NoYolo
    /\ labelme = NoLabelme

\* task 2.1.3 reads the raw files only
VerifyNegativeSamples ==
    /\ ~data_files.verification.exists
    /\ data_files' = [data_files EXCEPT
                        !.verification = Written(verify_negative_samples(raw_data))]
    /\ UNCHANGED <<run, last_task, tasks_run>>
    /\ Frame

NextVerify ==
    \/ VerifyNegativeSamples
    \/ ExtractMetadata
    \/ ConvertYoloLabels
    \/ ParseLabelme
    \/ ProcessNegativeImages

SpecVerify == InitVerify /\ [][NextVerify]_vars

----------------------------------------------------------------------------
(* The YOLO adapter applied to one line of a label file *)

\* a line of five numbers; the four geometric ones may lie outside [0,1]
YoloCandidateLines ==
    {<<0, xc, yc, w, h>> : xc \in -1..(Grid + 1), yc \in {-1, 0, 5, Grid},
                           w \in 0..(Grid + 1), h \in {0, 4, Grid}}

ImageSizes == {<<100, 100>>, <<20, 40>>}

InitYolo ==
    /\ HAS_SKLEARN = FALSE
    /\ rng = 0
    /\ dataset = [images |-> <<>>, annotations |-> <<>>]
    /\ result = NoSplit
    /\ memo = NoSplit
    /\ raw_data = NoCorpus
    /\ data_files = NoFiles
    /\ run = NotRun
    /\ last_task = 0
    /\ tasks_run = {}
    /\ validation = NoValidation
    /\ labelme = NoLabelme
    /\ \E l \in YoloCandidateLines, size \in ImageSizes :
          yolo = [line |-> l, width |-> size[1], height |-> size[2],
                  converted |-> FALSE, out |-> <<>>]

\* convert_yolo_labels, lines 226-236, for a label file of one line
ConvertLine ==
    /\ ~yolo.converted
    /\ LET boxes == parse_yolo_label_file(<<Tokens(yolo.line)>>)
       IN  yolo' = [yolo EXCEPT
                      !.converted = TRUE,
                      !.out = [k \in 1..Len(boxes) |->
                                  ConvertYoloBox(boxes[k], yolo.width, yolo.height)]]
    /\ UNCHANGED <<HAS_SKLEARN, rng, dataset, result, memo, raw_data, data_files,
                   run, last_task, tasks_run, validation, labelme>>

NextYolo == ConvertLine

SpecYolo == InitYolo /\ [][NextYolo]_vars

----------------------------------------------------------------------------
(* task_242_schema_validation.py                                           *)
(* A JSON value is [t |-> its Python type, v |-> a sequence of integers]:  *)
(* the number of an int or bool, the character codes of a str, the numbers *)
(* of a flat list, the first inner list of a list of lists ("lists"), the  *)
(* codes of the keys of an object that is not a record ("dict").  A JSON   *)
(* object read as a record is a function from field names to JSON values.  *)

JInt(n) == [t |-> "int", v |-> <<n>>]
JBool(b) == [t |-> "bool", v |-> <<IF b THEN 1 ELSE 0>>]
JStr(codes) == [t |-> "str", v |-> codes]
JList(numbers) == [t |-> "list", v |-> numbers]
JLists(first) == [t |-> "lists", v |-> first]

\* isinstance(x, int): bool is a subclass of int
IsInt(x) == x.t \in {"int", "bool"}
IsStr(x) == x.t = "str"
IsList(x) == x.t \in {"list", "lists"}
NumOf(x) == x.v[1]

\* one entry of the error list: what it reports, the index of the record,
\* the field, and the ids it names
Error(what, index, field, ids) ==
    [what |-> what, index |-> index, field |-> field, ids |-> ids]

IMAGE_REQUIRED_FIELDS ==
    <<"id", "file_name", "text_input", "height", "width", "is_instance_exhaustive">>

ANNOTATION_REQUIRED_FIELDS == <<"id", "image_id", "category_id">>

\* variant: the last required field is not looked for
MissingFieldsButLast(record, idx, required) ==
    LET Missing(k) == required[k] \notin DOMAIN record
        missing == SelectSeq([k \in 1..(Len(required) - 1) |-> k], Missing)
    IN  [k \in 1..Len(missing) |-> Error("missing_field", idx, required[missing[k]], <<>>)]

\* lines 51-54 and 94-97: one error per required field that is not a key
MissingFields(record, idx, required) ==
    LET Missing(k) == required[k] \notin DOMAIN record
        missing == SelectSeq([k \in 1..Len(required) |-> k], Missing)
    IN  [k \in 1..Len(missing) |-> Error("missing_field", idx, required[missing[k]], <<>>)]

\* a field that is present must be an instance of one of the accepted types
\* (isinstance(x, int) accepts bool, a subclass of int)
TypeError(record, idx, field, accepted) ==
    IF field \in DOMAIN record /\ record[field].t \notin accepted
    THEN <<Error("wrong_type", idx, field, <<>>)>> ELSE <<>>

\* lines 69-79: height and width are ints above 0
SizeError(record, idx, field) ==
    IF field \notin DOMAIN record THEN <<>>
    ELSE IF ~IsInt(record[field]) THEN <<Error("wrong_type", idx, field, <<>>)>>
    ELSE IF NumOf(record[field]) <= 0 THEN <<Error("not_positive", idx, field, <<>>)>>
    ELSE <<>>

\* lines 81-86 and 139-144: a bool, or the int 0 or 1
FlagError(record, idx, field) ==
    IF field \notin DOMAIN record THEN <<>>
    ELSE IF ~IsInt(record[field]) THEN <<Error("wrong_type", idx, field, <<>>)>>
    ELSE IF NumOf(record[field]) \notin {0, 1} THEN <<Error("not_0_or_1", idx, field, <<>>)>>
    ELSE <<>>

validate_image_schema(image, image_idx) ==
    MissingFields(image, image_idx, IMAGE_REQUIRED_FIELDS)
    \o TypeError(image, image_idx, "id", {"int", "bool"})
    \o TypeError(image, image_idx, "file_name", {"str"})
    \o TypeError(image, image_idx, "text_input", {"str"})
    \o SizeError(image, image_idx, "height")
    \o SizeError(image, image_idx, "width")
    \o FlagError(image, image_idx, "is_instance_exhaustive")

\* lines 112-127
SegmentationError(annotation, idx) ==
    IF "segmentation" \notin DOMAIN annotation THEN <<>>
    ELSE LET seg == annotation["segmentation"]
         IN  IF IsList(seg)
             THEN IF seg.t = "list" /\ Len(seg.v) > 0
                  THEN <<Error("not_list_of_lists", idx, "segmentation", <<>>)>> ELSE <<>>
             ELSE IF seg.t = "dict"
             THEN IF ~({1, 2} \subseteq Range(seg.v))
                  THEN <<Error("rle_keys", idx, "segmentation", <<>>)>> ELSE <<>>
             ELSE <<Error("wrong_type", idx, "segmentation", <<>>)>>

\* lines 130-136
BboxError(annotation, idx) ==
    IF "bbox" \notin DOMAIN annotation THEN <<>>
    ELSE IF ~IsList(annotation["bbox"]) THEN <<Error("wrong_type", idx, "bbox", <<>>)>>
    ELSE IF annotation["bbox"].t = "list" /\ Len(annotation["bbox"].v) # 4
    THEN <<Error("not_4_elements", idx, "bbox", <<>>)>>
    ELSE <<>>

validate_annotation_schema(annotation, ann_idx) ==
    MissingFields(annotation, ann_idx, ANNOTATION_REQUIRED_FIELDS)
    \o TypeError(annotation, ann_idx, "id", {"int", "bool"})
    \o TypeError(annotation, ann_idx, "image_id", {"int", "bool"})
    \o TypeError(annotation, ann_idx, "category_id", {"int", "bool"})
    \o SegmentationError(annotation, ann_idx)
    \o BboxError(annotation, ann_idx)
    \o FlagError(annotation, ann_idx, "iscrowd")

\* a JSON object read as a record, or a value that is no object
JDict(fields) == [t |-> "dict", d |-> fields]
JOther(type) == [t |-> type, d |-> <<>>]

\* a JSON array of such items, or a value that is no array
JArray(items) == [t |-> "list", items |-> items]
JNoArray(type) == [t |-> type, items |-> <<>>]

\* the element a Python set keeps for a value: True and 1 are the same element
PyKey(x) == IF IsInt(x) THEN <<"num", x.v>> ELSE <<x.t, x.v>>

\* lists and objects cannot be put in a set: TypeError
Hashable(x) == x.t \notin {"list", "lists", "dict"}

IsNone(x) == x.t = "null"

\* record.get(field): None when the key is absent
GetOrNone(record, field) ==
    IF field \in DOMAIN record THEN record[field] ELSE [t |-> "null", v |-> <<>>]

\* the state of the loops: errors so far, ids seen, ids referenced, and
\* whether an exception has ended the call
Loop(errors, ids, refs, raised) ==
    [errors |-> errors, ids |-> ids, refs |-> refs, raised |-> raised]

\* variant: a repeated image id is not reported
ImageStepNoDuplicateCheck(acc, image, idx) ==
    IF image.t # "dict"
    THEN [acc EXCEPT !.errors = @ \o <<Error("not_a_dictionary", idx, "image", <<>>)>>]
    ELSE LET img_id == GetOrNone(image.d, "id")
             checked == acc.errors \o validate_image_schema(image.d, idx)
         IN  IF IsNone(img_id) THEN [acc EXCEPT !.errors = checked]
             ELSE IF ~Hashable(img_id) THEN [acc EXCEPT !.errors = checked, !.raised = TRUE]
             ELSE [acc EXCEPT !.errors = checked, !.ids = @ \cup {PyKey(img_id)}]

\* lines 173-186: one pass of the loop over images
ImageStep(acc, image, idx) ==
    IF image.t # "dict"
    THEN [acc EXCEPT !.errors = @ \o <<Error("not_a_dictionary", idx, "image", <<>>)>>]
    ELSE LET img_id == GetOrNone(image.d, "id")
             checked == acc.errors \o validate_image_schema(image.d, idx)
         IN  IF IsNone(img_id) THEN [acc EXCEPT !.errors = checked]
             ELSE IF ~Hashable(img_id) THEN [acc EXCEPT !.errors = checked, !.raised = TRUE]
             ELSE [acc EXCEPT
                     !.errors = IF PyKey(img_id) \in acc.ids
                                THEN checked \o <<Error("duplicate_image_id", idx, "id",
                                                        img_id.v)>>
                                ELSE checked,
                     !.ids = @ \cup {PyKey(img_id)}]

RECURSIVE ImageLoop(_, _, _)
\* enumerate(images) counts from 0
ImageLoop(acc, items, k) ==
    IF k > Len(items) \/ acc.raised THEN acc
    ELSE ImageLoop(ImageStep(acc, items[k], k - 1), items, k + 1)

\* lines 197-213: one pass of the loop over annotations
AnnotationStep(acc, annotation, idx) ==
    IF annotation.t # "dict"
    THEN [acc EXCEPT !.errors = @ \o <<Error("not_a_dictionary", idx, "annotation", <<>>)>>]
    ELSE LET ann_id == GetOrNone(annotation.d, "id")
             img_id == GetOrNone(annotation.d, "image_id")
             checked == acc.errors \o validate_annotation_schema(annotation.d, idx)
             dup == ~IsNone(ann_id) /\ Hashable(ann_id) /\ PyKey(ann_id) \in acc.ids
         IN  [errors |-> IF dup
                         THEN checked \o <<Error("duplicate_annotation_id", idx, "id",
                                                 ann_id.v)>>
                         ELSE checked,
              ids    |-> IF ~IsNone(ann_id) /\ Hashable(ann_id)
                         THEN acc.ids \cup {PyKey(ann_id)} ELSE acc.ids,
              refs   |-> IF ~IsNone(img_id) /\ Hashable(img_id)
                         THEN acc.refs \cup {PyKey(img_id)} ELSE acc.refs,
              raised |-> \/ ~IsNone(ann_id) /\ ~Hashable(ann_id)
                         \/ ~IsNone(img_id) /\ ~Hashable(img_id)]

RECURSIVE AnnotationLoop(_, _, _)
AnnotationLoop(acc, items, k) ==
    IF k > Len(items) \/ acc.raised THEN acc
    ELSE AnnotationLoop(AnnotationStep(acc, items[k], k - 1), items, k + 1)

RECURSIVE SortedKeys(_)
\* sorted(list(ids)) for ids of one type, by their first element: ascending
\* (ids of different types cannot be ordered: TypeError)
SortedKeys(keys) ==
    IF keys = {} THEN <<>>
    ELSE LET least == CHOOSE a \in keys : \A b \in keys : a[2][1] <= b[2][1]
         IN  <<least[2][1]>> \o SortedKeys(keys \ {least})

\* line 215: the ids of the image records; iterating a number or null raises
ImageIdsSet(images) ==
    {PyKey(GetOrNone(images.items[k].d, "id")) :
        k \in {j \in 1..Len(images.items) :
                  images.items[j].t = "dict" /\ "id" \in DOMAIN images.items[j].d}}

\* variant: unresolved references are not looked for
UnresolvedReferencesIgnored(acc, images) == acc

\* lines 214-218: the references that are the id of no image
UnresolvedReferences(acc, images) ==
    IF images.t \in {"int", "bool", "null"} THEN [acc EXCEPT !.raised = TRUE]
    ELSE LET invalid == acc.refs \ ImageIdsSet(images)
         IN  IF invalid = {} THEN acc
             ELSE IF \E a, b \in invalid : a[1] # b[1]
             THEN [acc EXCEPT !.raised = TRUE]
             ELSE [acc EXCEPT !.errors = @ \o
                      <<Error("invalid_image_ids", Cardinality(invalid), "image_id",
                              SubSeq(SortedKeys(invalid), 1, Min(10, Cardinality(invalid))))>>]

\* lines 227-238
CategoryErrors(category, idx) ==
    IF category.t # "dict" THEN <<Error("not_a_dictionary", idx, "category", <<>>)>>
    ELSE (IF "id" \notin DOMAIN category.d
          THEN <<Error("missing_field", idx, "category.id", <<>>)>>
          ELSE IF ~IsInt(category.d["id"])
          THEN <<Error("wrong_type", idx, "category.id", <<>>)>> ELSE <<>>)
         \o
         (IF "name" \notin DOMAIN category.d
          THEN <<Error("missing_field", idx, "category.name", <<>>)>>
          ELSE IF ~IsStr(category.d["name"])
          THEN <<Error("wrong_type", idx, "category.name", <<>>)>> ELSE <<>>)

RECURSIVE CategoryLoop(_, _)
CategoryLoop(items, k) ==
    IF k > Len(items) THEN <<>>
    ELSE CategoryErrors(items[k], k - 1) \o CategoryLoop(items, k + 1)

TOP_LEVEL_KEYS == <<"images", "annotations", "categories">>

\* variant: the call repairs the object by dropping its image records
OutcomeRepaired(status, errors, data) ==
    [status |-> status, valid |-> status = "returned" /\ Len(errors) = 0,
     errors |-> errors, data |-> [data EXCEPT !.images = JArray(<<>>)]]

\* what a call leaves: an exception or a (verdict, errors) pair, and the
\* object it was given as the call left it
Outcome(status, errors, data) ==
    [status |-> status, valid |-> status = "returned" /\ Len(errors) = 0,
     errors |-> errors, data |-> data]

\* lines 166-221, once the top-level keys are known to be present
ValidateArrays(data) ==
    LET after_images ==
            IF data.images.t # "list"
            THEN Loop(<<Error("not_a_list", 0, "images", <<>>)>>, {}, {}, FALSE)
            ELSE ImageLoop(Loop(<<>>, {}, {}, FALSE), data.images.items, 1)
        Annotations(acc) ==
            IF acc.raised THEN acc
            ELSE IF data.annotations.t # "list"
            THEN [acc EXCEPT !.errors = @ \o <<Error("not_a_list", 0, "annotations", <<>>)>>]
            ELSE UnresolvedReferences(
                     AnnotationLoop([acc EXCEPT !.ids = {}], data.annotations.items, 1),
                     data.images)
        Categories(acc) ==
            IF acc.raised THEN acc
            ELSE IF data.categories.t # "list"
            THEN [acc EXCEPT !.errors = @ \o <<Error("not_a_list", 0, "categories", <<>>)>>]
            ELSE [acc EXCEPT !.errors = @ \o CategoryLoop(data.categories.items, 1)]
    IN  Categories(Annotations(after_images))

validate_saco_schema(data) ==
    IF data.t # "dict"
    THEN Outcome("returned", <<Error("root_not_a_dictionary", 0, "", <<>>)>>, data)
    ELSE LET Missing(k) == TOP_LEVEL_KEYS[k] \notin data.keys
             missing == SelectSeq([k \in 1..3 |-> k], Missing)
         IN  IF Len(missing) > 0
             THEN Outcome("returned",
                          [k \in 1..Len(missing) |->
                              Error("missing_top_level_key", 0, TOP_LEVEL_KEYS[missing[k]], <<>>)],
                          data)
             ELSE LET acc == ValidateArrays(data)
                  IN  Outcome(IF acc.raised THEN "raised" ELSE "returned", acc.errors, data)

----------------------------------------------------------------------------
(* validate_saco_schema called once on a dataset: an object with the three *)
(* top-level arrays, whose records may lack fields and share or miss ids   *)

MaxImageRecords == 3
MaxAnnotationRecords == 1

SeqsUpTo(S, n) == UNION {[1..m -> S] : m \in 0..n}

\* a field that may be absent: no pair, or the pair of the key and a value
Optional(key, values) == {<<>>} \cup {key :> val : val \in values}

ImageBase ==
    [file_name |-> JStr(<<1>>), text_input |-> JStr(<<2>>),
     height |-> JInt(100), width |-> JInt(100)]

ImageDicts ==
    {JDict(id @@ flag @@ ImageBase) :
        id \in Optional("id", {JInt(1), JInt(2)}),
        flag \in Optional("is_instance_exhaustive", {JBool(TRUE)})}

AnnotationDicts ==
    {JDict([id |-> JInt(id), image_id |-> JInt(image_id), category_id |-> JInt(1),
            segmentation |-> JLists(<<0, 0, 4, 0, 4, 4>>), bbox |-> JList(<<0, 0, 4, 4>>),
            area |-> JInt(0), iscrowd |-> JInt(0)]) :
        id \in {1, 2}, image_id \in {1, 2, 3}}

CategoryList == JArray(<<JDict([id |-> JInt(1), name |-> JStr(<<3>>)])>>)

Datasets ==
    {[t |-> "dict", keys |-> Range(TOP_LEVEL_KEYS), images |-> JArray(images),
      annotations |-> JArray(annotations), categories |-> CategoryList] :
        images \in SeqsUpTo(ImageDicts, MaxImageRecords),
        annotations \in SeqsUpTo(AnnotationDicts, MaxAnnotationRecords)}

InitValidate ==
    /\ HAS_SKLEARN = FALSE
    /\ rng = 0
    /\ dataset = [images |-> <<>>, annotations |-> <<>>]
    /\ result = NoSplit
    /\ memo = NoSplit
    /\ raw_data = NoCorpus
    /\ data_files = NoFiles
    /\ run = NotRun
    /\ last_task = 0
    /\ tasks_run = {}
    /\ yolo = NoYolo
    /\ labelme = NoLabelme
    /\ \E data \in Datasets : validation = [called |-> FALSE, data |-> data, out |-> <<>>]

\* main, lines 341 and 378: custom_valid, custom_errors = validate_saco_schema(data)
ValidateDataset ==
    /\ ~validation.called
    /\ validation' = [called |-> TRUE, data |-> validation.data,
                      out |-> validate_saco_schema(validation.data)]
    /\ UNCHANGED <<HAS_SKLEARN, rng, dataset, result, memo, raw_data, data_files,
                   run, last_task, tasks_run, yolo, labelme>>

NextValidate == ValidateDataset

SpecValidate == InitValidate /\ [][NextValidate]_vars

----------------------------------------------------------------------------
(* validate_saco_schema called once on any decoded JSON value: the root,   *)
(* the arrays, the records and the ids may have the wrong JSON type        *)

MaxItems == 2

\* image items: records whose id is absent, a number or a list, and a string
AnyImageItems ==
    {JDict(id @@ [is_instance_exhaustive |-> JBool(TRUE)] @@ ImageBase) :
        id \in Optional("id", {JInt(1), JList(<<1>>)})}
    \cup {JOther("str")}

\* annotation items: records whose image_id is a number or a list
AnyAnnotationItems ==
    {JDict([id |-> JInt(1), image_id |-> image_id, category_id |-> JInt(1),
            segmentation |-> JLists(<<0, 0, 4, 0, 4, 4>>), bbox |-> JList(<<0, 0, 4, 4>>),
            area |-> JInt(0), iscrowd |-> JInt(0)]) :
        image_id \in {JInt(1), JList(<<1>>)}}

AnyJson ==
    {[t |-> "dict", keys |-> keys, images |-> images,
      annotations |-> annotations, categories |-> CategoryList] :
        keys \in {Range(TOP_LEVEL_KEYS), {"images", "annotations"}},
        images \in {JArray(items) : items \in SeqsUpTo(AnyImageItems, MaxItems)}
                   \cup {JNoArray("int"), JNoArray("str"), JNoArray("null")},
        annotations \in {JArray(items) : items \in SeqsUpTo(AnyAnnotationItems, 1)}
                        \cup {JNoArray("int")}}
    \cup {[t |-> "list", keys |-> {}, images |-> JArray(<<>>),
           annotations |-> JArray(<<>>), categories |-> CategoryList]}

InitValidateAny ==
    /\ HAS_SKLEARN = FALSE
    /\ rng = 0
    /\ dataset = [images |-> <<>>, annotations |-> <<>>]
    /\ result = NoSplit
    /\ memo = NoSplit
    /\ raw_data = NoCorpus
    /\ data_files = NoFiles
    /\ run = NotRun
    /\ last_task = 0
    /\ tasks_run = {}
    /\ yolo = NoYolo
    /\ labelme = NoLabelme
    /\ \E data \in AnyJson : validation = [called |-> FALSE, data |-> data, out |-> <<>>]

SpecValidateAny == InitValidateAny /\ [][NextValidate]_vars

----------------------------------------------------------------------------
(* The LabelMe adapter applied to the shapes of one label file *)

MaxShapes == 2

Rooster == <<"r", "o", "o", "s", "t", "e", "r">>
HenCapital == <<"H", "e", "n">>
Chicks == <<"c", "h", "i", "c", "k", "s">>

PointLists ==
    {<<>>,
     << <<Px(10), Px(10)>>, <<Px(50), Px(10)>> >>,
     TrianglePoints,
     << <<Px(50), Px(10)>>, <<Px(10), Px(10)>>, <<Px(10), Px(40)>>, <<Px(50), Px(40)>> >>}

\* shapes as LabelMe writes them, each key present or not: every label on a
\* triangle, and every shape type and point list under one label
ShapeDicts ==
    {label @@ [shape_type |-> "polygon", points |-> TrianglePoints] :
        label \in Optional("label", {Chicken, Rooster, HenCapital, Chicks, UnknownBird})}
    \cup {type @@ points @@ [label |-> Chicken] :
            type \in Optional("shape_type", {"polygon", "rectangle"}),
            points \in Optional("points", PointLists)}

InitLabelme ==
    /\ HAS_SKLEARN = FALSE
    /\ rng = 0
    /\ dataset = [images |-> <<>>, annotations |-> <<>>]
    /\ result = NoSplit
    /\ memo = NoSplit
    /\ raw_data = NoCorpus
    /\ data_files = NoFiles
    /\ run = NotRun
    /\ last_task = 0
    /\ tasks_run = {}
    /\ validation = NoValidation
    /\ yolo = NoYolo
    /\ \E shapes \in SeqsUpTo(ShapeDicts, MaxShapes) :
          labelme = [shapes |-> shapes, parsed |-> FALSE, polygons |-> <<>>]

\* convert_labelme_files, line 189, for one label file
ParseLabelmeFile ==
    /\ ~labelme.parsed
    /\ labelme' = [labelme EXCEPT !.parsed = TRUE,
                                  !.polygons = parse_labelme_file(labelme.shapes)]
    /\ UNCHANGED <<HAS_SKLEARN, rng, dataset, result, memo, raw_data, data_files,
                   run, last_task, tasks_run, validation, yolo>>

NextLabelme == ParseLabelmeFile

SpecLabelme == InitLabelme /\ [][NextLabelme]_vars

----------------------------------------------------------------------------
(* The YOLO adapter applied to the lines of one label file *)

MaxYoloLines == 3

\* lines as line.split() gives them: blank, well formed, with 4 or 6 tokens,
\* with a token that is no number, with a geometric value outside [0, 1]
YoloFileLines ==
    {<<>>,
     Tokens(<<0, 5, 5, 4, 4>>),
     Tokens(<<1, 0, Grid, Grid, 0>>),
     Tokens(<<0, 5, 5, 4>>),
     Tokens(<<0, 5, 5, 4, 4, 1>>),
     <<NotANumber, Num(5), Num(5), Num(4), Num(4)>>,
     <<Num(0), Num(5), NotANumber, Num(4), Num(4)>>,
     Tokens(<<0, 5, 5, Grid + 1, 4>>),
     Tokens(<<0, -1, 5, 4, 4>>)}

InitYoloFile ==
    /\ HAS_SKLEARN = FALSE
    /\ rng = 0
    /\ dataset = [images |-> <<>>, annotations |-> <<>>]
    /\ result = NoSplit
    /\ memo = NoSplit
    /\ raw_data = NoCorpus
    /\ data_files = NoFiles
    /\ run = NotRun
    /\ last_task = 0
    /\ tasks_run = {}
    /\ validation = NoValidation
    /\ labelme = NoLabelme
    /\ \E lines \in SeqsUpTo(YoloFileLines, MaxYoloLines) :
          yolo = [lines |-> lines, parsed |-> FALSE, boxes |-> <<>>]

\* convert_yolo_labels, line 204, for one label file
ParseYoloFile ==
    /\ ~yolo.parsed
    /\ yolo' = [yolo EXCEPT !.parsed = TRUE,
                            !.boxes = parse_yolo_label_file(yolo.lines)]
    /\ UNCHANGED <<HAS_SKLEARN, rng, dataset, result, memo, raw_data, data_files,
                   run, last_task, tasks_run, validation, labelme>>

NextYoloFile == ParseYoloFile

SpecYoloFile == InitYoloFile /\ [][NextYoloFile]_vars

----------------------------------------------------------------------------
(* Properties of the splitter, checked under SpecSplit *)

IdsOf(images) == {images[i].id : i \in 1..Len(images)}

DistinctIds(images) ==
    \A i, j \in 1..Len(images) : i # j => images[i].id # images[j].id

\* an image with no annotation referencing its id
IsNegative(img) ==
    \A k \in 1..Len(dataset.annotations) : dataset.annotations[k].image_id # img.id

NegativesOf(images) == {i \in 1..Len(images) : IsNegative(images[i])}
PositivesOf(images) == {i \in 1..Len(images) : ~IsNegative(images[i])}

Returned == result.out.status = "ok"

IsRatio(r, num, den) == r[1] * den = r[2] * num

AnnotationsFollowImages ==
    /\ \A k \in 1..Len(result.out.train_annotations) :
           result.out.train_annotations[k].image_id \in IdsOf(result.out.train_images)
    /\ \A k \in 1..Len(result.out.val_annotations) :
           result.out.val_annotations[k].image_id \in IdsOf(result.out.val_images)
    /\ Range(result.out.train_annotations) \cap Range(result.out.val_annotations) = {}

\* C2 as stated: after stratified_split every train annotation belongs to a
\* train image, every val annotation to a val image, and no annotation is in
\* both outputs (for any dataset).
AnnotationFollowsImageAnyDataset ==
    Returned => AnnotationsFollowImages

\* C2 amended: the same, for a dataset whose images have pairwise distinct ids.
AnnotationFollowsImage ==
    (Returned /\ DistinctIds(dataset.images)) => AnnotationsFollowImages

AnnotationFollowsImageWitness ==
    /\ Returned
    /\ DistinctIds(dataset.images)
    /\ Len(result.out.train_annotations) >= 1
    /\ Len(result.out.val_annotations) >= 1

NegativeInTrainAndVal ==
    /\ Returned
    /\ NegativesOf(result.out.train_images) # {}
    /\ NegativesOf(result.out.val_images) # {}

\* C3: with at least 2 positive and at least 2 negative images and train
\* ratio 0.8, the call returns a train set and a val set that each hold at
\* least one negative image, for every seed.
StratificationGuarantee ==
    ( /\ result.kind # "none"
      /\ IsRatio(result.ratio, 4, 5)
      /\ Cardinality(PositivesOf(dataset.images)) >= 2
      /\ Cardinality(NegativesOf(dataset.images)) >= 2 ) => NegativeInTrainAndVal

StratificationGuaranteeWitness ==
    /\ result.kind # "none"
    /\ IsRatio(result.ratio, 4, 5)
    /\ Cardinality(PositivesOf(dataset.images)) >= 2
    /\ Cardinality(NegativesOf(dataset.images)) >= 2
    /\ NegativeInTrainAndVal

\* C4: for every train fraction in (0,1) and every dataset with at least 2
\* negative images, the call puts at least one negative image in train and at
\* least one in val.
NegativesInBothForEveryRatio ==
    ( /\ result.kind # "none"
      /\ DistinctIds(dataset.images)
      /\ Cardinality(NegativesOf(dataset.images)) >= 2 ) => NegativeInTrainAndVal

\* the images of a class that has exactly one member
SingletonClassImages ==
    LET P == PositivesOf(dataset.images)
        N == NegativesOf(dataset.images)
    IN  (IF Cardinality(P) = 1 THEN {dataset.images[i] : i \in P} ELSE {}) \cup
        (IF Cardinality(N) = 1 THEN {dataset.images[i] : i \in N} ELSE {})

RepeatCallSameResult ==
    ( /\ result.kind \in {"repeat", "repeat_disturbed"}
      /\ result.ratio = memo.ratio
      /\ result.seed = memo.seed ) =>
        /\ result.out.status = memo.out.status
        /\ result.out.train_images = memo.out.train_images
        /\ result.out.val_images = memo.out.val_images
        /\ result.out.train_annotations = memo.out.train_annotations
        /\ result.out.val_annotations = memo.out.val_annotations

RepeatCallSameResultWitness ==
    /\ result.kind = "repeat_disturbed"
    /\ Returned
    /\ Len(result.out.train_images) >= 2
    /\ Len(result.out.val_images) >= 2


----------------------------------------------------------------------------
(* Properties of task 2.4.1 and of the adapters *)

\* a run of task 2.4.1 just ended on a dataset without images
EmptyDatasetRun == last_task' = 7 /\ Len(run'.dataset.images) = 0

\* C7: when the dataset has no images, the run of task 2.4.1 exits with a
\* non-zero status and writes neither chicken_train.json nor chicken_val.json.
EmptyDatasetFails ==
    [][EmptyDatasetRun =>
          /\ run'.exit # 0
          /\ data_files'.train = data_files.train
          /\ data_files'.val = data_files.val]_vars

\* a run on an imageless dataset has ended with status 1 and no output file
EmptyDatasetFailsWitness ==
    /\ last_task = 7
    /\ Len(run.dataset.images) = 0
    /\ run.exit = 1
    /\ ~data_files.train.exists
    /\ ~data_files.val.exists
    /\ data_files.metadata.exists

Clamp(v, hi) == Max(0, Min(v, hi))

\* C8 as stated: for every valid YOLO line the adapter emits the polygon
\* [x1,y1,x2,y1,x2,y2,x1,y2] of the clamped corners and the bbox
\* [x_min, y_min, width, height]; the line [0, 0.5, 0.5, 0.4, 0.4] on a
\* 100x100 image yields bbox [30,30,40,40] and polygon [30,30,70,30,70,70,30,70].
YoloAdapterEmitsXYWH ==
    (yolo.converted /\ Len(yolo.out) = 1) =>
        LET l  == yolo.line
            x1 == Clamp(2 * l[2] * yolo.width - l[4] * yolo.width, Px(yolo.width))
            x2 == Clamp(2 * l[2] * yolo.width + l[4] * yolo.width, Px(yolo.width))
            y1 == Clamp(2 * l[3] * yolo.height - l[5] * yolo.height, Px(yolo.height))
            y2 == Clamp(2 * l[3] * yolo.height + l[5] * yolo.height, Px(yolo.height))
        IN  /\ yolo.out[1].polygon = <<x1, y1, x2, y1, x2, y2, x1, y2>>
            /\ yolo.out[1].bbox = <<x1, y1, x2 - x1, y2 - y1>>
            /\ (l = <<0, 5, 5, 4, 4>> /\ yolo.width = 100 /\ yolo.height = 100) =>
                  /\ yolo.out[1].bbox = <<Px(30), Px(30), Px(40), Px(40)>>
                  /\ yolo.out[1].polygon =
                        <<Px(30), Px(30), Px(70), Px(30), Px(70), Px(70), Px(30), Px(70)>>

\* the records consolidation reads, in the order it reads them
ConsolidationInputs ==
    (IF data_files.metadata.exists THEN data_files.metadata.content ELSE <<>>)
    \o (IF data_files.negatives.exists THEN data_files.negatives.content ELSE <<>>)

\* task 2.4.1 ran last and built its dataset from the ETL outputs
Consolidated == last_task = 7 /\ ~data_files.consolidated.exists

FirstWithId(records, id) ==
    records[CHOOSE j \in 1..Len(records) :
                /\ records[j].id = id
                /\ \A i \in 1..(j - 1) : records[i].id # id]

\* C9: the images returned by consolidate_from_etl_outputs have pairwise
\* distinct ids; of the input records sharing an id only the first seen is kept.
ConsolidatedKeepsFirstPerId ==
    Consolidated =>
        LET images == run.dataset.images
        IN  /\ DistinctIds(images)
            /\ IdsOf(images) = IdsOf(ConsolidationInputs)
            /\ \A k \in 1..Len(images) :
                   images[k] = FirstWithId(ConsolidationInputs, images[k].id)

\* two different metadata records share an id and one of them was dropped
ConsolidatedKeepsFirstPerIdWitness ==
    /\ Consolidated
    /\ data_files.metadata.exists
    /\ \E i, j \in 1..Len(data_files.metadata.content) :
          /\ i < j
          /\ data_files.metadata.content[i].id = data_files.metadata.content[j].id
          /\ data_files.metadata.content[i] # data_files.metadata.content[j]
          /\ \E k \in 1..Len(run.dataset.images) :
                run.dataset.images[k] = data_files.metadata.content[i]
    /\ Len(run.dataset.images) < Len(ConsolidationInputs)

\* the datasets a run of task 2.4.1 used and left on disk
ArtifactDatasets ==
    {run.dataset}
    \cup (IF data_files.train.exists THEN {data_files.train.content} ELSE {})
    \cup (IF data_files.val.exists THEN {data_files.val.content} ELSE {})

IsExcludedFile(img, entry) ==
    /\ img.file_name.dir = entry.image.dir
    /\ img.file_name.stem = entry.image.stem

\* C10 as stated: an image recorded in excluded_images never appears in the
\* consolidated dataset nor in the train or val output, and neither does any
\* annotation of it.
ExcludedImagesStayOut ==
    (last_task = 7 /\ run.after_exclusion /\ data_files.report.exists) =>
        \A e \in Range(data_files.report.content), ds \in ArtifactDatasets :
            /\ \A k \in 1..Len(ds.images) : ~IsExcludedFile(ds.images[k], e)
            /\ \A k \in 1..Len(ds.annotations) :
                   ds.annotations[k].image_id # generate_image_id(e.image)


\* C11: every annotation of the dataset returned by
\* consolidate_from_etl_outputs has an image_id that is the id of an image
\* in that dataset's images list.
ConsolidatedAnnotationsResolve ==
    Consolidated =>
        \A k \in 1..Len(run.dataset.annotations) :
            run.dataset.annotations[k].image_id \in IdsOf(run.dataset.images)

\* consolidation attached an annotation to an image
ConsolidatedAnnotationsResolveWitness ==
    /\ Consolidated
    /\ Len(run.dataset.annotations) > 0
    /\ Len(run.dataset.images) > 1

\* an annotation made from a YOLO box carries the box; a LabelMe polygon has none
FromYolo(ann) == ann.bbox # <<>>

\* C12: the annotations created by one call of consolidate_from_etl_outputs
\* have the ids 1..N, each used once, the YOLO conversions numbered before
\* the LabelMe conversions.
AnnotationIdsCountFromOne ==
    Consolidated =>
        LET anns == run.dataset.annotations
        IN  /\ {anns[k].id : k \in 1..Len(anns)} = 1..Len(anns)
            /\ \A i, j \in 1..Len(anns) :
                   (FromYolo(anns[i]) /\ ~FromYolo(anns[j])) => anns[i].id < anns[j].id

\* one consolidation numbered a YOLO box and a LabelMe polygon
AnnotationIdsCountFromOneWitness ==
    /\ Consolidated
    /\ \E i, j \in 1..Len(run.dataset.annotations) :
          /\ FromYolo(run.dataset.annotations[i])
          /\ ~FromYolo(run.dataset.annotations[j])
          /\ run.dataset.annotations[i].id = 1
          /\ run.dataset.annotations[j].id = 2


----------------------------------------------------------------------------
(* Properties of the validator, checked under SpecValidate *)

Validated == validation.called /\ validation.out.status = "returned"

GivenImages == validation.data.images.items
GivenAnnotations == validation.data.annotations.items

ErrorsWhere(Test(_)) ==
    {k \in 1..Len(validation.out.errors) : Test(validation.out.errors[k])}

LacksFlag(k) == "is_instance_exhaustive" \notin DOMAIN GivenImages[k].d

\* C13: for every dataset in which some image record lacks
\* is_instance_exhaustive, the verdict is invalid and the error list has an
\* entry naming the index of that image and the field.
MissingFlagIsItemized ==
    validation.called =>
        \A k \in 1..Len(GivenImages) :
            LacksFlag(k) =>
                /\ validation.out.status = "returned"
                /\ ~validation.out.valid
                /\ \E e \in Range(validation.out.errors) :
                      /\ e.what = "missing_field"
                      /\ e.index = k - 1
                      /\ e.field = "is_instance_exhaustive"

\* the second of two records lacks the flag and is the only defect
MissingFlagIsItemizedWitness ==
    /\ Validated
    /\ Len(GivenImages) = 2
    /\ ~LacksFlag(1)
    /\ LacksFlag(2)
    /\ Len(validation.out.errors) = 1

\* the image records that carry the id n
ImagesWithId(n) ==
    {k \in 1..Len(GivenImages) :
        "id" \in DOMAIN GivenImages[k].d /\ GivenImages[k].d["id"] = JInt(n)}

DuplicateErrorsNaming(n) ==
    LET Names(e) == e.what = "duplicate_image_id" /\ e.ids = <<n>>
    IN  ErrorsWhere(Names)

\* C14: an image id that occurs k times yields exactly k-1 duplicate-image-id
\* errors naming it, and an invalid verdict when k is 2 or more.
DuplicateIdErrorsCounted ==
    validation.called =>
        \A n \in 1..2 :
            Cardinality(ImagesWithId(n)) >= 1 =>
                /\ validation.out.status = "returned"
                /\ Cardinality(DuplicateErrorsNaming(n)) = Cardinality(ImagesWithId(n)) - 1
                /\ Cardinality(ImagesWithId(n)) >= 2 => ~validation.out.valid

\* one id on three records, reported twice
DuplicateIdErrorsCountedWitness ==
    /\ Validated
    /\ Cardinality(ImagesWithId(1)) = 3
    /\ Cardinality(DuplicateErrorsNaming(1)) = 2

\* one id on two records, reported once
DuplicateIdOnceWitness ==
    /\ Validated
    /\ Cardinality(ImagesWithId(2)) = 2
    /\ Cardinality(DuplicateErrorsNaming(2)) = 1

GivenImageIds ==
    {NumOf(GivenImages[k].d["id"]) :
        k \in {j \in 1..Len(GivenImages) : "id" \in DOMAIN GivenImages[j].d}}

UnresolvedIds ==
    {NumOf(GivenAnnotations[k].d["image_id"]) : k \in 1..Len(GivenAnnotations)}
    \ GivenImageIds

\* C15: the verdict is valid only if every annotation's image_id is the id
\* of an image of the dataset; when some reference is unresolved the verdict
\* is invalid and an error reports the unresolved ids.
UnresolvedReferencesReported ==
    validation.called =>
        /\ validation.out.valid => UnresolvedIds = {}
        /\ UnresolvedIds # {} =>
              /\ validation.out.status = "returned"
              /\ ~validation.out.valid
              /\ \E e \in Range(validation.out.errors) :
                    /\ e.what = "invalid_image_ids"
                    /\ e.index = Cardinality(UnresolvedIds)
                    /\ Range(e.ids) = UnresolvedIds

\* the only defect of the dataset is a reference to an absent image
UnresolvedReferencesReportedWitness ==
    /\ Validated
    /\ Len(GivenImages) >= 1
    /\ UnresolvedIds = {3}
    /\ Len(validation.out.errors) = 1

ValidationAcceptsWitness ==
    /\ Validated
    /\ validation.out.valid
    /\ Len(GivenImages) >= 2
    /\ Len(GivenAnnotations) >= 1


----------------------------------------------------------------------------
(* Properties of extraction, flagging and negative processing *)

\* C17 as stated: the records of one extraction pass have pairwise distinct
\* ids whenever the files have distinct paths, and the id of a file is the
\* same on every run.
ExtractedIdsDistinctAndStable ==
    (1 \in tasks_run /\ data_files.metadata.exists) =>
        LET records == data_files.metadata.content
        IN  /\ \A i, j \in 1..Len(records) :
                   records[i].file_name # records[j].file_name
                       => records[i].id # records[j].id
            /\ \A i \in 1..Len(records) :
                   records[i].id = generate_image_id(records[i].file_name)

\* the image records the tasks have written so far
WrittenImageRecords ==
    UNION {Range(IF data_files[f].exists THEN data_files[f].content ELSE <<>>) :
              f \in {"metadata", "negatives"}}
    \cup UNION {Range(IF data_files[f].exists THEN data_files[f].content.images ELSE <<>>) :
                   f \in {"train", "val"}}
    \cup Range(run.dataset.images)

\* C18 as stated: once add_exhaustiveness_flag has run on the metadata,
\* whatever value the field held before, every image record carries
\* is_instance_exhaustive == true (the boolean), and keeps it through
\* negative-image processing, consolidation and the split.
EveryRecordFlaggedTrue ==
    4 \in tasks_run =>
        \A record \in WrittenImageRecords : record.is_instance_exhaustive = "True"


\* the images of the negative-class directory whose label file holds a
\* YOLO line or a LabelMe shape
LabelledNotChickenImages ==
    {f \in raw_data.images :
        /\ f.dir = "not_chicken"
        /\ Len(YoloLines(raw_data.labels[f.stem]))
              + Len(LabelmeShapes(raw_data.labels[f.stem])) > 0}

ListedNegative(f) ==
    \E k \in 1..Len(data_files.negatives.content) :
        /\ data_files.negatives.content[k].id = generate_image_id(f)
        /\ data_files.negatives.content[k].file_name.dir = f.dir
        /\ data_files.negatives.content[k].file_name.stem = f.stem

ListedInvalid(f) ==
    \E k \in 1..Len(data_files.verification.content.invalid_negative_samples) :
        data_files.verification.content.invalid_negative_samples[k].image = ProjectPath(f)

ListedNegativesHaveNoAnnotations ==
    (Consolidated /\ data_files.negatives.exists) =>
        \A k \in 1..Len(data_files.negatives.content) :
            \A a \in 1..Len(run.dataset.annotations) :
                run.dataset.annotations[a].image_id # data_files.negatives.content[k].id


----------------------------------------------------------------------------
(* Properties of the negative classifier *)

\* the conversion entries the adapters have written
WrittenConversions ==
    (IF data_files.yolo.exists THEN data_files.yolo.content ELSE <<>>)
    \o (IF data_files.labelme.exists THEN data_files.labelme.content ELSE <<>>)

\* the number of polygons the adapters produced for the image of a record
PolygonsProducedFor(rec) ==
    LET of == SelectSeq(WrittenConversions,
                        LAMBDA conv : /\ conv.image_file.dir = rec.file_name.dir
                                      /\ conv.image_file.stem = rec.file_name.stem)
        Sum[k \in 0..Len(of)] == IF k = 0 THEN 0 ELSE Len(of[k].polygons) + Sum[k - 1]
    IN  Sum[Len(of)]

NegativeIds == {data_files.negatives.content[k].id : k \in 1..Len(data_files.negatives.content)}

\* C21 as stated: an image is marked negative if and only if it lies under
\* the negative-class directory or the adapters produced zero polygons for
\* it; a positive-class image with at least one polygon is never marked.
NegativeIffDirectoryOrNoPolygons ==
    5 \in tasks_run =>
        \A k \in 1..Len(data_files.metadata.content) :
            LET rec == data_files.metadata.content[k]
            IN  rec.id \in NegativeIds
                    <=> (rec.file_name.dir = "not_chicken" \/ PolygonsProducedFor(rec) = 0)

RecordsWhere(Test(_)) ==
    Cardinality({k \in 1..Len(data_files.metadata.content) :
                    Test(data_files.metadata.content[k])})

\* C22 as stated: not_chicken_folder counts the images under the
\* negative-class directory and zero_annotations counts the images with zero
\* polygons, each independently of the other.
ReasonsCountedIndependently ==
    5 \in tasks_run =>
        /\ data_files.negative_statistics.content.not_chicken_folder =
              RecordsWhere(LAMBDA rec : rec.file_name.dir = "not_chicken")
        /\ data_files.negative_statistics.content.zero_annotations =
              RecordsWhere(LAMBDA rec : PolygonsProducedFor(rec) = 0)

\* C23 as stated: no image is marked negative by the zero-annotation rule
\* while the adapter that reads its label file has not yet produced its
\* output.
ZeroRuleOnlyAfterAdapters ==
    5 \in tasks_run =>
        \A f \in raw_data.images :
            (/\ f.dir = "chicken"
             /\ [dir |-> "not_chicken", stem |-> f.stem] \notin raw_data.images
             /\ generate_image_id(f) \in NegativeIds)
            => /\ raw_data.labels[f.stem] = "yolo" => 2 \in tasks_run
               /\ IsLabelme(raw_data.labels[f.stem]) => 3 \in tasks_run


----------------------------------------------------------------------------
(* Properties of the adapters, checked under SpecLabelme and SpecYoloFile *)

\* the synonyms of the Label Normalizer, task_212 lines 81-90
IsSynonym(label) ==
    Lower(label) \in {Rooster, Lower(HenCapital), Chicks,
                      <<"c", "h", "i", "c", "k">>, <<"h", "e", "n", "s">>,
                      <<"c", "o", "c", "k">>, <<"c", "o", "c", "k", "s">>,
                      <<"r", "o", "o", "s", "t", "e", "r", "s">>}

CanonicalLabel(label) == IF IsSynonym(label) THEN Chicken ELSE label

\* the shape a parsed polygon came from
ShapeOf(polygon) == labelme.shapes[polygon.shape_index + 1]

\* C24 as stated: the label of every emitted polygon is the canonical label
\* of its shape's label: chicken for a synonym in any letter case, the label
\* itself otherwise.
EmittedLabelIsCanonical ==
    labelme.parsed =>
        \A k \in 1..Len(labelme.polygons) :
            "label" \in DOMAIN ShapeOf(labelme.polygons[k]) =>
                labelme.polygons[k].label = CanonicalLabel(ShapeOf(labelme.polygons[k])["label"])

\* the shapes of type polygon with at least 3 points, by position
PolygonShapes ==
    {i \in 1..Len(labelme.shapes) :
        /\ "shape_type" \in DOMAIN labelme.shapes[i]
        /\ labelme.shapes[i]["shape_type"] = "polygon"
        /\ "points" \in DOMAIN labelme.shapes[i]
        /\ Len(labelme.shapes[i]["points"]) >= 3}

\* C25: one polygon is emitted for exactly the shapes of type polygon with
\* at least 3 points, in file order, and it lists the shape's points as
\* x1, y1, x2, y2, ... in their original order.
PolygonsAreTheFlattenedPolygonShapes ==
    labelme.parsed =>
        /\ {labelme.polygons[k].shape_index + 1 : k \in 1..Len(labelme.polygons)} = PolygonShapes
        /\ Len(labelme.polygons) = Cardinality(PolygonShapes)
        /\ \A k \in 1..(Len(labelme.polygons) - 1) :
               labelme.polygons[k].shape_index < labelme.polygons[k + 1].shape_index
        /\ \A k \in 1..Len(labelme.polygons) :
               LET points == ShapeOf(labelme.polygons[k])["points"]
                   flat   == labelme.polygons[k].points_flat
               IN  /\ Len(flat) = 2 * Len(points)
                   /\ \A j \in 1..Len(points) :
                          flat[2 * j - 1] = points[j][1] /\ flat[2 * j] = points[j][2]

\* a file with a triangle kept and a two-point shape or a rectangle dropped
PolygonsAreTheFlattenedPolygonShapesWitness ==
    /\ labelme.parsed
    /\ Len(labelme.shapes) = 2
    /\ Len(labelme.polygons) = 1
    /\ labelme.polygons[1].shape_index = 1
    /\ labelme.polygons[1].points_flat = <<Px(10), Px(10), Px(50), Px(10), Px(30), Px(40)>>

\* the lines with 5 numeric tokens whose geometric values lie in [0, 1]
WellFormedLines ==
    {i \in 1..Len(yolo.lines) :
        /\ Len(yolo.lines[i]) = 5
        /\ \A k \in 1..5 : yolo.lines[i][k].numeric
        /\ \A k \in 2..5 : yolo.lines[i][k].value \in 0..Grid}

\* C26: the boxes returned are exactly the well-formed lines, in file order;
\* any other line is skipped and the lines after it are still read; a file
\* without lines gives no box.
ParsedBoxesAreTheWellFormedLines ==
    yolo.parsed =>
        /\ Len(yolo.boxes) = Cardinality(WellFormedLines)
        /\ \A i \in WellFormedLines :
               LET before == Cardinality({j \in WellFormedLines : j < i})
               IN  yolo.boxes[before + 1] = [k \in 1..5 |-> yolo.lines[i][k].value]

\* a malformed line between two well-formed ones, both returned
ParsedBoxesAreTheWellFormedLinesWitness ==
    /\ yolo.parsed
    /\ Len(yolo.lines) = 3
    /\ WellFormedLines = {1, 3}
    /\ Len(yolo.lines[2]) = 5
    /\ yolo.boxes = << <<0, 5, 5, 4, 4>>, <<1, 0, Grid, Grid, 0>> >>

\* an empty file parsed without a box
EmptyYoloFileWitness == yolo.parsed /\ yolo.lines = <<>> /\ yolo.boxes = <<>>


\* C27 as stated: for every decoded JSON value the call returns a verdict
\* and an error list and never raises; a structurally wrong value gets an
\* invalid verdict with itemized errors.
ValidatorNeverRaises ==
    validation.called =>
        /\ validation.out.status = "returned"
        /\ (\/ validation.data.t # "dict"
            \/ validation.data.images.t # "list"
            \/ validation.data.annotations.t # "list"
            \/ \E k \in 1..Len(validation.data.images.items) :
                  /\ validation.data.images.items[k].t = "dict"
                  /\ "id" \in DOMAIN validation.data.images.items[k].d
                  /\ validation.data.images.items[k].d["id"].t = "list")
           => ~validation.out.valid /\ Len(validation.out.errors) > 0


----------------------------------------------------------------------------
(* Properties of the consolidated annotations and of the saved artifacts *)

\* C28 as stated: every annotation of the consolidated dataset, whichever
\* adapter its polygon came from, carries a bbox of exactly 4 numbers.
ConsolidatedBboxHasFourNumbers ==
    Consolidated =>
        \A a \in 1..Len(run.dataset.annotations) :
            Len(run.dataset.annotations[a].bbox) = 4

\* C30 as stated: once task 2.4.1 has run, chicken_train.json and
\* chicken_val.json are both on disk or neither is.
TrainAndValWrittenTogether ==
    last_task = 7 => (data_files.train.exists <=> data_files.val.exists)

\* the number of annotations the consolidated dataset holds for an image
AnnotationsOf(img) ==
    Cardinality({a \in 1..Len(run.dataset.annotations) :
                    run.dataset.annotations[a].image_id = img.id})

\* C29 as stated: every consolidated image carries exactly one annotation
\* for each polygon of the conversions that name it, and the dataset holds
\* as many annotations as those conversions hold polygons.
OneAnnotationPerPolygonOnNamedImage ==
    Consolidated =>
        LET images == run.dataset.images
            Total[k \in 0..Len(images)] ==
                IF k = 0 THEN 0 ELSE PolygonsProducedFor(images[k]) + Total[k - 1]
        IN  /\ \A k \in 1..Len(images) :
                   AnnotationsOf(images[k]) = PolygonsProducedFor(images[k])
            /\ Len(run.dataset.annotations) = Total[Len(images)]

============================================================================
